---- MODULE Spec2Model ----
(***************************************************************************)
(* A model of neuropythy/geometry/mesh.py: the Tesselation indices, the    *)
(* sub-tesselation extraction and the containing-triangle search of Mesh.  *)
(*                                                                         *)
(* Conventions.  A face array (3 x m) is a sequence of m columns, each a   *)
(* triple <<a, b, c>> of vertex labels.  Vertex and face indices are       *)
(* 0-based as in the source; a sequence s holds index i at s[i + 1].       *)
(* A Python exception is the outcome [err |-> "<ExceptionName>"]; a normal *)
(* return is [err |-> "none", ...].                                        *)
(***************************************************************************)
EXTENDS Integers, Sequences, FiniteSets, TLC

VARIABLES faces, properties, coordinates, registrations, meta_data, op, arg, res

vars == <<faces, properties, coordinates, registrations, meta_data, op, arg, res>>

\* an object without registrations (every vertex set but a Topology) and
\* the empty meta-data map, a map being kept as the set of its keys
NoRegistrations == <<>>

NoMeta == {}

(***************************************************************************)
(* Bounds of the model.                                                    *)
(***************************************************************************)
MaxFaces == 2

VertexLabels == {0, 1, 2, 3}

(***************************************************************************)
(* Generic helpers.                                                        *)
(***************************************************************************)
SetMin(S) == CHOOSE x \in S : \A y \in S : x <= y

SetMax(S) == CHOOSE x \in S : \A y \in S : x >= y

RECURSIVE SortedSeq(_)
SortedSeq(S) ==
    IF S = {} THEN <<>>
    ELSE LET m == SetMin(S) IN <<m>> \o SortedSeq(S \ {m})

Range(s) == {s[i] : i \in DOMAIN s}

Raise(name) == [err |-> name]

(***************************************************************************)
(* Tesselation: labels, counts, vertex_index.                              *)
(***************************************************************************)
\* np.unique(faces): the sorted distinct labels of the face array
labels(fs) == SortedSeq(UNION {Range(fs[i]) : i \in DOMAIN fs})

vertex_count(fs) == Len(labels(fs))

face_count(fs) == Len(fs)

\* label -> vertex index
vertex_index(fs) ==
    LET lb == labels(fs)
    IN  [v \in Range(lb) |-> (CHOOSE i \in DOMAIN lb : lb[i] = v) - 1]

\* the six keys face_index stores for one face, in the order of the source
FaceKeys(f) ==
    LET a == f[1]  b == f[2]  c == f[3]
    IN  {<<a, b, c>>, <<b, c, a>>, <<c, b, a>>, <<a, c, b>>, <<b, a, c>>, <<c, a, b>>}

\* a loop body that keeps the entry a key already has
FaceIndexStepKeepFirst(idx, f, i) ==
    [t \in (DOMAIN idx) \cup FaceKeys(f) |-> IF t \in DOMAIN idx THEN idx[t] ELSE i]

\* one pass of the loop body: every key of face number i (0-based) is (re)assigned i
FaceIndexStep(idx, f, i) ==
    [t \in (DOMAIN idx) \cup FaceKeys(f) |-> IF t \in FaceKeys(f) THEN i ELSE idx[t]]

RECURSIVE FaceIndexUpTo(_, _)
FaceIndexUpTo(fs, m) ==
    IF m = 0 THEN [t \in {} |-> 0]
    ELSE FaceIndexStep(FaceIndexUpTo(fs, m - 1), fs[m], m - 1)

face_index(fs) == FaceIndexUpTo(fs, Len(fs))

(***************************************************************************)
(* Tesselation.edge_data.                                                  *)
(***************************************************************************)
\* the 3m directed corner pairs with their face numbers, in the order of the
\* zip over the concatenated rows: (f0,f1) of every face, then (f1,f2), then (f2,f0)
EdgePairs(fs) ==
    LET m == Len(fs)
    IN  [j \in 1..(3 * m) |->
            LET i == ((j - 1) % m) + 1
                r == (j - 1) \div m
                f == fs[i]
            IN  [u |-> f[r + 1], v |-> f[((r + 1) % 3) + 1], i |-> i - 1]]

SortedPair(u, v) == IF u <= v THEN <<u, v>> ELSE <<v, u>>

\* one pass of the first loop: st = [idx, edge_list, edge2face]
EdgeLoopStep(st, p) ==
    LET e == SortedPair(p.u, p.v)
        k == Len(st.edge_list)
    IN  IF e \in DOMAIN st.idx
        THEN [st EXCEPT !.edge2face =
                 [x \in DOMAIN st.edge2face |->
                     IF x = e THEN Append(st.edge2face[x], p.i) ELSE st.edge2face[x]]]
        ELSE [idx       |-> [x \in (DOMAIN st.idx) \cup {e, <<e[2], e[1]>>} |->
                                IF x \in {e, <<e[2], e[1]>>} THEN k ELSE st.idx[x]],
              edge_list |-> Append(st.edge_list, e),
              edge2face |-> [x \in (DOMAIN st.edge2face) \cup {e} |->
                                IF x = e THEN <<p.i>> ELSE st.edge2face[x]]]

RECURSIVE EdgeLoopUpTo(_, _)
EdgeLoopUpTo(ps, j) ==
    IF j = 0
    THEN [idx |-> [x \in {} |-> 0], edge_list |-> <<>>, edge2face |-> [x \in {} |-> <<>>]]
    ELSE EdgeLoopStep(EdgeLoopUpTo(ps, j - 1), ps[j])

EdgeLoop(fs) == EdgeLoopUpTo(EdgePairs(fs), 3 * Len(fs))

\* The closing loop iterates over edge2face while storing the reversed key of
\* each entry into that same dict.  Storing (b,a) for a key (a,b) with a # b adds
\* a key, and the dict iterator then raises RuntimeError ("dictionary changed
\* size during iteration") on its next step; a key (a,a) is stored onto itself.
MirrorLoopRaises(edge2face) == \E e \in DOMAIN edge2face : e[1] # e[2]

edge_data(fs) ==
    LET st == EdgeLoop(fs)
    IN  IF MirrorLoopRaises(st.edge2face)
        THEN Raise("RuntimeError")
        ELSE [err             |-> "none",
              edges           |-> st.edge_list,
              edge_index      |-> st.idx,
              edge_face_index |-> st.edge2face]

(***************************************************************************)
(* Inputs: the face arrays a Tesselation is constructed from.              *)
(***************************************************************************)
\* the pinwheel of test/optimize.py
tiny_mesh_faces == <<(<<0, 1, 2>>), (<<0, 2, 3>>), (<<0, 3, 1>>)>>

Triples == {t \in VertexLabels \X VertexLabels \X VertexLabels :
               t[1] # t[2] /\ t[2] # t[3] /\ t[1] # t[3]}

\* degenerate columns (repeated labels) are integer triples like any other
DegenerateFaceArrays == {<<(<<0, 0, 1>>)>>, <<(<<1, 1, 1>>), (<<2, 2, 2>>)>>}

FaceArrays ==
    (UNION {[1..m -> Triples] : m \in 1..MaxFaces})
        \cup DegenerateFaceArrays \cup {tiny_mesh_faces}

EmptyTable == [ncols |-> 0, rows |-> <<>>]

(***************************************************************************)
(* Specification of the index values of a Tesselation.                     *)
(***************************************************************************)
InitIndex ==
    /\ faces \in FaceArrays
    /\ properties = EmptyTable
    /\ registrations = NoRegistrations
    /\ meta_data = NoMeta
    /\ coordinates = <<>>
    /\ op = "init"
    /\ arg = <<>>
    /\ res = <<>>

GetFaceIndex ==
    /\ op' = "face_index"
    /\ arg' = <<>>
    /\ res' = face_index(faces)
    /\ UNCHANGED <<faces, properties, coordinates, registrations, meta_data>>

GetEdgeData ==
    /\ op' = "edge_data"
    /\ arg' = <<>>
    /\ res' = edge_data(faces)
    /\ UNCHANGED <<faces, properties, coordinates, registrations, meta_data>>

NextIndex == GetFaceIndex \/ GetEdgeData

SpecIndex == InitIndex /\ [][NextIndex]_vars

(***************************************************************************)
(* Claims about the index values.                                          *)
(***************************************************************************)
\* the number of positions of the triple t that hold x
Occurrences(t, x) == Cardinality({j \in 1..3 : t[j] = x})

\* t is an ordering of the corners of face f
SameCorners(t, f) == \A x \in Range(t) \cup Range(f) : Occurrences(t, x) = Occurrences(f, x)

Orderings(f) == {t \in Range(f) \X Range(f) \X Range(f) : SameCorners(t, f)}

\* the unordered corner pairs of the faces
CornerPairs(fs) ==
    {SortedPair(fs[i][j], fs[i][(j % 3) + 1]) : i \in DOMAIN fs, j \in 1..3}

\* C1 (as claimed): edge_face_index maps each edge, in either vertex order, to a
\* tuple of exactly 1 or 2 face indices, and each of the three corner pairs of
\* every face i maps to a tuple that contains i.
C1_EdgeFaceIndex ==
    (op = "edge_data") =>
        /\ res.err = "none"
        /\ \A e \in CornerPairs(faces) : \A k \in {e, <<e[2], e[1]>>} :
              /\ k \in DOMAIN res.edge_face_index
              /\ Len(res.edge_face_index[k]) \in {1, 2}
        /\ \A i \in DOMAIN faces : \A j \in 1..3 :
              LET k == <<faces[i][j], faces[i][(j % 3) + 1]>>
              IN  /\ k \in DOMAIN res.edge_face_index
                  /\ (i - 1) \in Range(res.edge_face_index[k])

\* the last face (1-based position) with the corners of face i
LastSameCorners(fs, i) == SetMax({j \in DOMAIN fs : SameCorners(fs[j], fs[i])})

\* C2 (as claimed): face_index returns i for each of the six orderings of the
\* corners of every face i, also when two faces use the same three vertices,
\* and never maps a triple to a face with other corners.
C2_FaceIndexEveryFace ==
    (op = "face_index") =>
        /\ \A i \in DOMAIN faces : \A t \in Orderings(faces[i]) :
              t \in DOMAIN res /\ res[t] = i - 1
        /\ \A t \in DOMAIN res : SameCorners(t, faces[res[t] + 1])

\* C2 (amended): face_index maps each of the six orderings of the corners of
\* face i to the last face of the array that has those corners (i itself when
\* no later face repeats them), and never maps a triple to a face with other
\* corners.
C2_FaceIndexLastFace ==
    (op = "face_index") =>
        /\ \A i \in DOMAIN faces : \A t \in Orderings(faces[i]) :
              t \in DOMAIN res /\ res[t] = LastSameCorners(faces, i) - 1
        /\ \A t \in DOMAIN res : SameCorners(t, faces[res[t] + 1])

\* C2 witness: two faces on the same three vertices, the earlier one looked up
C2_Witness ==
    /\ op = "face_index"
    /\ \E i, j \in DOMAIN faces :
          /\ i < j
          /\ SameCorners(faces[i], faces[j])
          /\ faces[i] # faces[j]
          /\ res[faces[i]] = j - 1

\* C3 (as claimed): edges lists each undirected pair of labels that are corners
\* of a common face exactly once, edge_count is the number of such pairs,
\* edge_index[(u,v)] = edge_index[(v,u)] = k exactly when column k of edges is
\* {u,v}; the pinwheel has 4 vertices, 6 edges and 3 faces.
C3_Edges ==
    (op = "edge_data") =>
        /\ res.err = "none"
        /\ {SortedPair(res.edges[k][1], res.edges[k][2]) : k \in DOMAIN res.edges}
              = CornerPairs(faces)
        /\ Len(res.edges) = Cardinality(CornerPairs(faces))
        /\ \A u, v \in Range(labels(faces)) : \A k \in DOMAIN res.edges :
              (SortedPair(u, v) = SortedPair(res.edges[k][1], res.edges[k][2]))
                  <=> (/\ <<u, v>> \in DOMAIN res.edge_index
                       /\ <<v, u>> \in DOMAIN res.edge_index
                       /\ res.edge_index[<<u, v>>] = k - 1
                       /\ res.edge_index[<<v, u>>] = k - 1)
        /\ (faces = tiny_mesh_faces) =>
              /\ vertex_count(faces) = 4
              /\ Len(res.edges) = 6
              /\ face_count(faces) = 3

(***************************************************************************)
(* Tesselation.subtess.                                                    *)
(*                                                                         *)
(* A property table is [ncols, rows]: the number of user columns, and for  *)
(* each row the label of the vertex whose data the row holds.  A vertex    *)
(* selection is [kind |-> "mask", v |-> <<booleans>>] (a numpy bool array) *)
(* or [kind |-> "labels", v |-> <<labels>>] (an integer array).            *)
(***************************************************************************)
MaxCols == 2

\* itable.row_count: a table without columns has no rows
row_count(props) == IF props.ncols = 0 THEN 0 ELSE Len(props.rows)

\* the two requirements a constructed or copied Tesselation must pass
validate_vertex_properties_size(props, n) ==
    \/ row_count(props) = 0
    \/ row_count(props) = n

validate_properties(props, n) ==
    \/ props.ncols = 0
    \/ n = row_count(props)

\* np.array_equal(vertices, np.asarray(vertices, np.bool)): a bool array equals
\* itself; an integer array equals its truth values iff every entry is 0 or 1
EqualsItsTruthValues(sel) ==
    \/ sel.kind = "mask"
    \/ \A j \in DOMAIN sel.v : sel.v[j] \in {0, 1}

\* self.indices[vertices] for a bool array: the indices at the True positions
\* (the mask is taken at its first vertex_count positions)
MaskIndices(mask) ==
    LET Pick(j) == mask[j]
    IN  [k \in DOMAIN SelectSeq([j \in DOMAIN mask |-> j], Pick) |->
            SelectSeq([j \in DOMAIN mask |-> j], Pick)[k] - 1]

\* self.faces[:, fids] with fids the faces whose three corners are all in the mask
KeptFaces(fs, mask) ==
    LET vi == vertex_index(fs)
        Whole(f) == mask[vi[f[1]] + 1] /\ mask[vi[f[2]] + 1] /\ mask[vi[f[3]] + 1]
    IN  SelectSeq(fs, Whole)

\* props[vidcs]: the rows at the given indices
TableRows(props, vidcs) ==
    [props EXCEPT !.rows = [k \in DOMAIN vidcs |-> props.rows[vidcs[k] + 1]]]

\* self.copy(faces=..., _properties=...): the new object's requirements are checked
CopyTess(fs2, props2) ==
    IF /\ validate_vertex_properties_size(props2, vertex_count(fs2))
       /\ validate_properties(props2, vertex_count(fs2))
    THEN [err |-> "none", self |-> FALSE, faces |-> fs2, labels |-> labels(fs2),
          properties |-> props2]
    ELSE Raise("ValueError")

ReturnSelf(fs, props) ==
    [err |-> "none", self |-> TRUE, faces |-> fs, labels |-> labels(fs), properties |-> props]

\* the branch taken for a bool array of vertex_count entries
SubtessOfMask(fs, props, mask) ==
    LET vidcs == MaskIndices(mask)
    IN  IF Len(vidcs) = vertex_count(fs)
        THEN ReturnSelf(fs, props)
        ELSE CopyTess(KeptFaces(fs, mask),
                      IF props.ncols > 1 THEN TableRows(props, vidcs) ELSE props)

subtess(fs, props, sel) ==
    IF Len(sel.v) # vertex_count(fs) \/ ~EqualsItsTruthValues(sel)
    THEN \* tmp = self.index(vertices); vertices = np.zeros(n); vertices[tmp] = 1
         IF \E j \in DOMAIN sel.v : sel.v[j] \notin DOMAIN vertex_index(fs)
         THEN Raise("KeyError")
         \* self.indices[vertices] with the float array np.zeros made: numpy >= 1.13
         \* (setup.py) refuses a float array as an index
         ELSE Raise("IndexError")
    ELSE IF sel.kind = "mask"
    THEN SubtessOfMask(fs, props, sel.v)
    \* an integer array of vertex_count zeros and ones is used as an index array:
    \* vidcs has vertex_count entries
    ELSE ReturnSelf(fs, props)

(***************************************************************************)
(* Specification of subtess.                                               *)
(***************************************************************************)
bowtie_faces == <<(<<0, 1, 2>>), (<<2, 3, 4>>)>>

\* the tables a Tesselation is given: none of the user's columns, or several
Tables(fs) == {EmptyTable} \cup {[ncols |-> c, rows |-> labels(fs)] : c \in 2..MaxCols}

Masks(fs) == {[kind |-> "mask", v |-> m] : m \in [1..vertex_count(fs) -> BOOLEAN]}

Reversed(s) == [j \in DOMAIN s |-> s[Len(s) + 1 - j]]

\* label lists: every subset of the labels in ascending order, and in descending order
LabelLists(fs) ==
    {[kind |-> "labels", v |-> SortedSeq(S)] : S \in SUBSET Range(labels(fs))}
        \cup {[kind |-> "labels", v |-> Reversed(SortedSeq(S))] : S \in SUBSET Range(labels(fs))}

\* subtess does not read the order of a face's corners: columns in ascending order
AscendingTriples == {t \in Triples : t[1] < t[2] /\ t[2] < t[3]}

SubFaceArrays ==
    (UNION {[1..m -> AscendingTriples] : m \in 1..(MaxFaces + 1)})
        \cup DegenerateFaceArrays \cup {tiny_mesh_faces, bowtie_faces}

InitSub ==
    /\ faces \in SubFaceArrays
    /\ properties \in Tables(faces)
    /\ registrations = NoRegistrations
    /\ meta_data = NoMeta
    /\ coordinates = <<>>
    /\ op = "init"
    /\ arg = <<>>
    /\ res = <<>>

Subtess(sel) ==
    /\ op' = "subtess"
    /\ arg' = sel
    /\ res' = subtess(faces, properties, sel)
    /\ UNCHANGED <<faces, properties, coordinates, registrations, meta_data>>

SubtessMask == \E sel \in Masks(faces) : Subtess(sel)

SubtessLabels == \E sel \in LabelLists(faces) : Subtess(sel)

NextSub == SubtessMask \/ SubtessLabels

SpecSub == InitSub /\ [][NextSub]_vars

(***************************************************************************)
(* Claims about subtess.                                                   *)
(***************************************************************************)
\* the labels a selection selects
Selected(fs, sel) ==
    IF sel.kind = "mask"
    THEN {labels(fs)[j] : j \in {i \in DOMAIN sel.v : sel.v[i]}}
    ELSE Range(sel.v)

\* the faces whose three corners are all in the label set S, in their order
FacesWithin(fs, S) ==
    LET Whole(f) == Range(f) \subseteq S
    IN  SelectSeq(fs, Whole)

\* C4 (as claimed): for a selection (boolean mask or list of labels) that does
\* not select all vertices, the faces of subtess(selection) are exactly the
\* faces of the original whose three corners are all selected, as labels.
C4_SubtessFaces ==
    (op = "subtess" /\ Selected(faces, arg) # Range(labels(faces))) =>
        /\ res.err = "none"
        /\ res.faces = FacesWithin(faces, Selected(faces, arg))

\* C5 (as claimed): the vertex labels of subtess(selection) are exactly the
\* labels of the selected vertices, also when a selected vertex has no
\* retained face, and the property rows are the rows of those vertices.
C5_SubtessLabels ==
    (op = "subtess") =>
        /\ res.err = "none"
        /\ Range(res.labels) = Selected(faces, arg)
        /\ (res.properties.ncols > 0) => (res.properties.rows = res.labels)

\* C6 (as claimed): subtess with a selection that contains all vertices (an
\* all-true mask or the list of all labels in any order) returns the original
\* Tesselation, with the same faces, labels and properties.
C6_SubtessAll ==
    (op = "subtess" /\ Selected(faces, arg) = Range(labels(faces))) =>
        /\ res.err = "none"
        /\ res.faces = faces
        /\ res.labels = labels(faces)
        /\ res.properties = properties

(***************************************************************************)
(* Mesh: coordinates, face centers, the spatial hash of the face centers   *)
(* and the containing-triangle search.                                     *)
(*                                                                         *)
(* coordinates (d x n, d = 2) is a sequence of n columns <<x, y>>.  A      *)
(* query point is [c |-> <<x, y>>, fin |-> BOOLEAN]: fin is FALSE for a    *)
(* point with a NaN or infinite coordinate.  Coordinates are integers.     *)
(***************************************************************************)
None == -1

MaxK == 2

MaxPts == 2

\* the hard caps on the candidate count
SearchCapScalar == 288

SearchCapBatch == 256

\* container's default candidate count k
DefaultK == 2

\* coordinates[:, t]: the column at position t (a vertex label used as a position)
Column(coords, t) == coords[t + 1]

\* face_coordinates of face number t: the columns at its three corner labels
FaceCorners(fs, coords, t) == [j \in 1..3 |-> Column(coords, fs[t + 1][j])]

\* three times the face center (np.sum(face_coordinates, axis=0) / 3.0), kept integral
FaceCenter3(fs, coords, t) ==
    LET tri == FaceCorners(fs, coords, t)
    IN  <<tri[1][1] + tri[2][1] + tri[3][1], tri[1][2] + tri[2][2] + tri[3][2]>>

\* nine times the squared distance between point c and the center of face t
CenterDist(fs, coords, t, c) ==
    LET g == FaceCenter3(fs, coords, t)
    IN  (3 * c[1] - g[1]) * (3 * c[1] - g[1]) + (3 * c[2] - g[2]) * (3 * c[2] - g[2])

\* the face numbers ordered by distance of their centers to c (ties: lower number first)
RECURSIVE NearestOrder(_, _, _, _)
NearestOrder(fs, coords, c, left) ==
    IF left = {} THEN <<>>
    ELSE LET t == CHOOSE t \in left : \A u \in left :
                      \/ CenterDist(fs, coords, t, c) < CenterDist(fs, coords, u, c)
                      \/ /\ CenterDist(fs, coords, t, c) = CenterDist(fs, coords, u, c)
                         /\ t <= u
         IN  <<t>> \o NearestOrder(fs, coords, c, left \ {t})

\* face_hash.query(x, k)[1] for one point: the k nearest face numbers, nearest
\* first; a kd-tree of fewer than k points fills the rest with the point count
QueryNear(fs, coords, c, k) ==
    LET ord == NearestOrder(fs, coords, c, 0..(Len(fs) - 1))
    IN  [j \in 1..k |-> IF j <= Len(ord) THEN ord[j] ELSE Len(fs)]

Cross(a, b, c) == (b[1] - a[1]) * (c[2] - a[2]) - (b[2] - a[2]) * (c[1] - a[1])

\* util.point_in_triangle: the point lies in the closed triangle
point_in_triangle(tri, c) ==
    LET d1 == Cross(tri[1], tri[2], c)
        d2 == Cross(tri[2], tri[3], c)
        d3 == Cross(tri[3], tri[1], c)
    IN  \/ (d1 >= 0 /\ d2 >= 0 /\ d3 >= 0)
        \/ (d1 <= 0 /\ d2 <= 0 /\ d3 <= 0)

\* is_point_in_face(tri_no, pt) for an array tri_no of face numbers and the
\* points pt, element by element; self.tess.faces[:, tri_no] raises for a
\* number that is no face
is_point_in_face(fs, coords, tri_no, pts) ==
    IF \E i \in DOMAIN tri_no : tri_no[i] >= Len(fs)
    THEN Raise("IndexError")
    ELSE [err |-> "none",
          val |-> [i \in DOMAIN tri_no |->
                      point_in_triangle(FaceCorners(fs, coords, tri_no[i]), pts[i].c)]]

\* is_point_in_face(kk, pt) for one face number kk: np.asarray(kk) is 0-dimensional
\* and len() of it raises TypeError
is_point_in_face_scalar(fs, coords, kk, p) == Raise("TypeError")

\* _find_triangle_search: past the cap it gives up; below it, it reads
\* self.facee_hash, which the Mesh does not have
find_triangle_search(k) ==
    IF k >= SearchCapScalar THEN [err |-> "none", val |-> None]
    ELSE Raise("AttributeError")

\* container(pt, k) for one point (len(pt.shape) == 1)
container_point(fs, coords, p, k) ==
    LET near == QueryNear(fs, coords, p.c, k)
    IN  IF k < 1
        THEN Raise("ValueError")       \* query(k=0) is refused
        ELSE IF k = 1
        THEN Raise("TypeError")        \* query(k=1) yields one number: not iterable
        ELSE IF Len(near) = 0
        THEN find_triangle_search(2 * k)
        ELSE is_point_in_face_scalar(fs, coords, near[1], p)

\* the entries of s at the positions where keep is TRUE, in order
Compress(s, keep) ==
    LET Pick(j) == keep[j]
        pos == SelectSeq([j \in DOMAIN s |-> j], Pick)
    IN  [k \in DOMAIN pos |-> s[pos[k]]]

\* res[keep] = vals: the positions of base where keep is TRUE take vals in order
Scatter(base, keep, vals) ==
    [j \in DOMAIN base |->
        IF keep[j] THEN vals[Cardinality({i \in 1..j : keep[i]})] ELSE base[j]]

\* near[:, top_i] taken from the far end of each row
GuessesFarthest(near, top_i) == [i \in DOMAIN near |-> near[i][Len(near[i]) - top_i]]

\* the candidate count of the next query, one more
IncrementK(cur_k) == cur_k + 1

\* the candidate count of the next query: cur_k*2
DoubleK(cur_k) == cur_k * 2

\* guesses = near[:, top_i]
Guesses(near, top_i) == [i \in DOMAIN near |-> near[i][top_i + 1]]

NoNear == <<>>

\* the value of a one-element set
Only(S) == CHOOSE x \in S : TRUE

\* res[out_tri_q] = <the recursive call's result>, or the exception it raised
MergeRest(res0, out_tri_q, qs, rec) ==
    IF rec.err # "none"
    THEN [err |-> rec.err, val |-> <<>>, queries |-> qs \o rec.queries]
    ELSE [err |-> "none", val |-> Scatter(res0, out_tri_q, rec.val),
          queries |-> qs \o rec.queries]

\* try_nearest(sub_pts, cur_k, top_i, near) of the batched path; k and max_k are
\* the closure's.  Yields [err, val, queries]: queries lists the k of every
\* face_hash.query issued.
RECURSIVE try_nearest(_, _, _, _, _, _, _, _)

\* the body of try_nearest once near (nr) is known; qs lists the query just made
TryGuesses(fs, coords, k, max_k, sub_pts, cur_k, top_i, nr, qs) ==
    LET guesses   == Guesses(nr, top_i)
        in_tri    == is_point_in_face(fs, coords, guesses, sub_pts)
        in_tri_q  == in_tri.val
        res0      == [i \in DOMAIN sub_pts |-> IF in_tri_q[i] THEN guesses[i] ELSE None]
        out_tri_q == [i \in DOMAIN sub_pts |-> ~in_tri_q[i]]
        rest      == Compress(sub_pts, out_tri_q)
    IN  IF in_tri.err # "none"
        THEN [err |-> in_tri.err, val |-> <<>>, queries |-> qs]
        ELSE IF \A i \in DOMAIN sub_pts : in_tri_q[i]
        THEN [err |-> "none", val |-> res0, queries |-> qs]
        ELSE Only({MergeRest(res0, out_tri_q, qs, rec) : rec \in
                     {IF top_i + 1 = cur_k
                      THEN try_nearest(fs, coords, k, max_k, rest, DoubleK(cur_k), top_i + 1, NoNear)
                      ELSE try_nearest(fs, coords, k, max_k, rest, cur_k, top_i + 1,
                                       Compress(nr, out_tri_q))}})

try_nearest(fs, coords, k, max_k, sub_pts, cur_k, top_i, near) ==
    IF k # cur_k /\ cur_k > max_k
    THEN [err |-> "none", val |-> [i \in DOMAIN sub_pts |-> None], queries |-> <<>>]
    ELSE IF near # NoNear
    THEN TryGuesses(fs, coords, k, max_k, sub_pts, cur_k, top_i, near, <<>>)
    ELSE IF cur_k < 1
    THEN \* query(k=0): scipy >= 1.1 (setup.py) takes the maximum of an empty list of ranks
         [err |-> "ValueError", val |-> <<>>, queries |-> <<cur_k>>]
    ELSE IF cur_k = 1
    THEN \* query(k=1) yields a 1-dimensional array: near[:, top_i] has too many indices
         [err |-> "IndexError", val |-> <<>>, queries |-> <<cur_k>>]
    ELSE Only({TryGuesses(fs, coords, k, max_k, sub_pts, cur_k, top_i, nr, <<cur_k>>) : nr \in
                 {[i \in DOMAIN sub_pts |-> QueryNear(fs, coords, sub_pts[i].c, cur_k)]}})

\* dmins[j], dmaxs[j]: np.min and np.max of row j of coordinates.T
RowMin(coords, j) == SetMin(Range(coords[j]))

RowMax(coords, j) == SetMax(Range(coords[j]))

\* inside_q: the finite points whose axis j lies in [dmins[j], dmaxs[j]] for
\* every axis j (zip stops at the d axes of the points)
InsideQ(coords, pts) ==
    [i \in DOMAIN pts |->
        /\ pts[i].fin
        /\ \A j \in 1..2 :
              /\ pts[i].c[j] >= RowMin(coords, j)
              /\ pts[i].c[j] <= RowMax(coords, j)]

\* container(pt, k) for an array of points
container_batch(fs, coords, pts, k0) ==
    LET tcount   == Len(fs)
        max_k    == IF tcount > SearchCapBatch THEN SearchCapBatch ELSE tcount
        k        == IF k0 > tcount THEN tcount ELSE k0
        none     == [i \in DOMAIN pts |-> None]
        inside_q == InsideQ(coords, pts)
    IN  IF \A i \in DOMAIN pts : ~inside_q[i]
        THEN [err |-> "none", val |-> none, inside_q |-> inside_q, queries |-> <<>>]
        ELSE Only({IF r.err # "none"
                   THEN [err |-> r.err, val |-> <<>>, inside_q |-> inside_q,
                         queries |-> r.queries]
                   ELSE [err |-> "none", val |-> Scatter(none, inside_q, r.val),
                         inside_q |-> inside_q, queries |-> r.queries] : r \in
                     {try_nearest(fs, coords, k, max_k, Compress(pts, inside_q), k, 0, NoNear)}})

\* Mesh.container: one point (a 1-dimensional pt) or an array of points
container(fs, coords, q) ==
    IF q.single
    THEN container_point(fs, coords, q.pt[1], q.k)
    ELSE container_batch(fs, coords, q.pt, q.k)

(***************************************************************************)
(* Specification of Mesh.container.                                        *)
(***************************************************************************)
\* the pinwheel of test/optimize.py with its rim points moved to integers
tiny_mesh == [faces  |-> tiny_mesh_faces,
              coords |-> <<(<<0, 0>>), (<<2, 0>>), (<<-1, 1>>), (<<-1, -1>>)>>]

\* one long face and two small ones around vertex 2
fan3_mesh == [faces  |-> <<(<<2, 1, 0>>), (<<2, 0, 3>>), (<<2, 3, 4>>)>>,
              coords |-> <<(<<0, 3>>), (<<12, 0>>), (<<0, 0>>), (<<-2, 1>>), (<<0, -3>>)>>]

fan4_mesh == [faces  |-> <<(<<2, 1, 0>>), (<<2, 0, 3>>), (<<2, 3, 4>>), (<<2, 4, 1>>)>>,
              coords |-> <<(<<0, 3>>), (<<12, 0>>), (<<0, 0>>), (<<-2, 1>>), (<<0, -3>>)>>]

one_face_mesh == [faces  |-> <<(<<0, 1, 2>>)>>,
                  coords |-> <<(<<0, 0>>), (<<2, 0>>), (<<0, 2>>)>>]

Meshes == {tiny_mesh, fan3_mesh, fan4_mesh, one_face_mesh}

GridCoords == (0 - 2)..2

NonFinitePoint == [c |-> <<0, 0>>, fin |-> FALSE]

QueryPoints == {[c |-> <<x, y>>, fin |-> TRUE] : x \in GridCoords, y \in GridCoords}
                  \cup {NonFinitePoint}

Queries ==
    {[single |-> TRUE, pt |-> <<p>>, k |-> k] : p \in QueryPoints \ {NonFinitePoint}, k \in 1..MaxK}
        \cup {[single |-> FALSE, pt |-> ps, k |-> k] :
                 ps \in UNION {[1..n -> QueryPoints] : n \in 1..MaxPts}, k \in 1..MaxK}

InitMesh ==
    /\ \E m \in Meshes : faces = m.faces /\ coordinates = m.coords
    /\ properties = EmptyTable
    /\ registrations = NoRegistrations
    /\ meta_data = NoMeta
    /\ op = "init"
    /\ arg \in Queries
    /\ res = <<>>

Container ==
    /\ op' = "container"
    /\ res' = container(faces, coordinates, arg)
    /\ UNCHANGED <<faces, properties, coordinates, registrations, meta_data, arg>>

NextMesh == Container

SpecMesh == InitMesh /\ [][NextMesh]_vars

(***************************************************************************)
(* Claims about Mesh.container.                                            *)
(***************************************************************************)
FaceIds == 0..(Len(faces) - 1)

\* the point-in-triangle test of face t for the query point p
InFace(t, p) == p.fin /\ point_in_triangle(FaceCorners(faces, coordinates, t), p.c)

Containing(p) == {t \in FaceIds : InFace(t, p)}

\* the faces whose centers are nearer to p than the center of face t
NearerFaces(t, p) ==
    {g \in FaceIds : CenterDist(faces, coordinates, g, p.c) < CenterDist(faces, coordinates, t, p.c)}

\* what a returned result holds for query point number i
Answer(i) == IF arg.single THEN res.val ELSE res.val[i]

\* C7: whenever container (single point or batch) returns a face id f for a
\* point p, p passes the point-in-triangle test of f and no face whose center
\* is nearer to p than f's passes it; element i of a batch result belongs to
\* point i.
C7_ContainerNearestFirst ==
    (op = "container" /\ res.err = "none") =>
        \A i \in DOMAIN arg.pt :
            (Answer(i) # None) =>
                /\ Answer(i) \in FaceIds
                /\ InFace(Answer(i), arg.pt[i])
                /\ \A g \in NearerFaces(Answer(i), arg.pt[i]) : ~InFace(g, arg.pt[i])

\* C7 witness: a batch of two points answered with different faces, one of them
\* found only after the candidate count was doubled and nearer faces had failed
C7_Witness ==
    /\ op = "container"
    /\ ~arg.single
    /\ res.err = "none"
    /\ Len(res.queries) >= 2
    /\ \E i, j \in DOMAIN arg.pt :
          /\ res.val[i] # None
          /\ res.val[j] # None
          /\ res.val[i] # res.val[j]
          /\ Cardinality(NearerFaces(res.val[j], arg.pt[j])) >= arg.k

\* C8 (as claimed): with the default k = 2, a point contained in a face t gets
\* a containing face from container (one point or a batch) unless at least 256
\* faces have centers nearer to it than t's center.
C8_ContainerFinds ==
    (op = "container" /\ arg.k = DefaultK) =>
        \A i \in DOMAIN arg.pt : \A t \in Containing(arg.pt[i]) :
            (Cardinality(NearerFaces(t, arg.pt[i])) < SearchCapBatch) =>
                /\ res.err = "none"
                /\ Answer(i) \in Containing(arg.pt[i])

\* C9 (as claimed): for a point contained in no face, container returns None
\* and never raises, in the single-point path and in the batched path, also on
\* a mesh with fewer faces than k.
C9_NoContainerIsNone ==
    (op = "container") =>
        \A i \in DOMAIN arg.pt :
            (Containing(arg.pt[i]) = {}) =>
                /\ res.err = "none"
                /\ Answer(i) = None

\* the range of the mesh's vertices on axis j
AxisMin(j) == SetMin({coordinates[v][j] : v \in DOMAIN coordinates})

AxisMax(j) == SetMax({coordinates[v][j] : v \in DOMAIN coordinates})

OutsideBox(p) ==
    \/ ~p.fin
    \/ \E j \in 1..2 : p.c[j] < AxisMin(j) \/ p.c[j] > AxisMax(j)

\* C10 (as claimed): in the batched container a point is excluded by the
\* bounding-box filter, and marked None, iff it has a non-finite coordinate or
\* lies on some axis outside the [min, max] of all vertices on that axis.
C10_BoundingBox ==
    (op = "container" /\ ~arg.single) =>
        \A i \in DOMAIN arg.pt :
            /\ (~res.inside_q[i]) <=> OutsideBox(arg.pt[i])
            /\ (res.err = "none" /\ ~res.inside_q[i]) => (res.val[i] = None)

(***************************************************************************)
(* Mesh.address, Mesh.unaddress and Mesh.nearest_data.                     *)
(*                                                                         *)
(* Barycentric coordinates are kept exact: the three corner weights as     *)
(* integers over a common positive denominator; nan marks a NaN-filled     *)
(* entry.                                                                  *)
(***************************************************************************)
NaNCorners == [nan |-> TRUE, tri |-> <<(<<0, 0>>), (<<0, 0>>), (<<0, 0>>)>>]

NaNBary == [nan |-> TRUE, w |-> <<0, 0, 0>>, den |-> 0]

NaNPoint == [nan |-> TRUE, c |-> <<0, 0>>]

\* util.cartesian_to_barycentric_2D for one triangle and one point: the
\* weight of a corner is the signed area opposite to it over the triangle's
cartesian_to_barycentric_2D(tx, p) ==
    LET den == Cross(tx.tri[1], tx.tri[2], tx.tri[3])
        w   == <<Cross(tx.tri[2], tx.tri[3], p.c),
                 Cross(tx.tri[3], tx.tri[1], p.c),
                 Cross(tx.tri[1], tx.tri[2], p.c)>>
    IN  IF tx.nan \/ ~p.fin \/ den = 0 THEN NaNBary
        ELSE IF den > 0 THEN [nan |-> FALSE, w |-> w, den |-> den]
        ELSE [nan |-> FALSE, w |-> [j \in 1..3 |-> 0 - w[j]], den |-> 0 - den]

\* util.barycentric_to_cartesian for one triangle: the weighted sum of the corners
barycentric_to_cartesian(tx, bc) ==
    IF tx.nan \/ bc.nan THEN NaNPoint
    ELSE [nan |-> FALSE,
          c   |-> [a \in 1..2 |->
                     (bc.w[1] * tx.tri[1][a] + bc.w[2] * tx.tri[2][a]
                        + bc.w[3] * tx.tri[3][a]) \div bc.den]]

\* Python truth of a face id: None and 0 are false
Truthy(f) == f # None /\ f # 0

\* self.coordinates[:, faces[:, f]].T if f else null
CornersIfTruthy(fs, coords, f) ==
    IF Truthy(f) THEN [nan |-> FALSE, tri |-> FaceCorners(fs, coords, f)] ELSE NaNCorners

\* the corners of face f whatever its number
CornersOfFace(fs, coords, f) ==
    IF f # None THEN [nan |-> FALSE, tri |-> FaceCorners(fs, coords, f)] ELSE NaNCorners

\* address(data) for one point: a missing container yields None, not a record
address_point(fs, coords, p) ==
    LET c == container_point(fs, coords, p, DefaultK)
    IN  IF c.err # "none" THEN Raise(c.err)
        ELSE IF c.val = None THEN [err |-> "none", record |-> FALSE]
        ELSE [err |-> "none", record |-> TRUE, face_id |-> <<c.val>>,
              coordinates |->
                 <<cartesian_to_barycentric_2D(
                      [nan |-> FALSE, tri |-> FaceCorners(fs, coords, c.val)], p)>>]

\* address(data) for an array of points
address_batch(fs, coords, pts) ==
    LET c == container_batch(fs, coords, pts, DefaultK)
    IN  IF c.err # "none" THEN Raise(c.err)
        ELSE [err |-> "none", record |-> TRUE, face_id |-> c.val,
              coordinates |->
                 [i \in DOMAIN pts |->
                     cartesian_to_barycentric_2D(
                         CornersIfTruthy(fs, coords, c.val[i]), pts[i])]]

address(fs, coords, q) ==
    IF q.single THEN address_point(fs, coords, q.pt[1])
    ELSE address_batch(fs, coords, q.pt)

\* unaddress(data) for the dictionary address returned for an array of points
\* (face_id and coordinates are both iterable)
unaddress(fs, coords, a) ==
    [err |-> "none",
     val |-> [i \in DOMAIN a.face_id |->
                 barycentric_to_cartesian(CornersIfTruthy(fs, coords, a.face_id[i]),
                                          a.coordinates[i])]]

\* nearest_data(pt, k): a single point is wrapped into a batch of one; for the
\* first point of the batch the first candidate of its row of near is handed
\* to is_point_in_face as one face number
nearest_data(fs, coords, q) ==
    LET pt   == q.pt
        near == QueryNear(fs, coords, pt[1].c, q.k)
    IN  IF q.k = 1
        THEN Raise("TypeError")        \* a row of near is one number: not iterable
        ELSE is_point_in_face_scalar(fs, coords, near[1], pt[1])

(***************************************************************************)
(* Specification of address, unaddress and nearest_data.                   *)
(***************************************************************************)
InitAddress ==
    /\ \E m \in Meshes : faces = m.faces /\ coordinates = m.coords
    /\ properties = EmptyTable
    /\ registrations = NoRegistrations
    /\ meta_data = NoMeta
    /\ op = "init"
    /\ arg \in Queries
    /\ res = <<>>

Address ==
    /\ op = "init"
    /\ op' = "address"
    /\ res' = address(faces, coordinates, arg)
    /\ UNCHANGED <<faces, properties, coordinates, registrations, meta_data, arg>>

\* unaddress applied to the dictionary that address returned
Unaddress ==
    /\ op = "address"
    /\ res.err = "none"
    /\ res.record
    /\ op' = "unaddress"
    /\ res' = unaddress(faces, coordinates, res)
    /\ UNCHANGED <<faces, properties, coordinates, registrations, meta_data, arg>>

NearestData ==
    /\ op = "init"
    /\ op' = "nearest_data"
    /\ res' = nearest_data(faces, coordinates, arg)
    /\ UNCHANGED <<faces, properties, coordinates, registrations, meta_data, arg>>

NextAddress == Address \/ Unaddress \/ NearestData

SpecAddress == InitAddress /\ [][NextAddress]_vars

(***************************************************************************)
(* Claims about address, unaddress and nearest_data.                       *)
(***************************************************************************)
\* what container answers for the query
Found == container(faces, coordinates, [arg EXCEPT !.k = DefaultK])

FoundFace(i) == IF arg.single THEN Found.val ELSE Found.val[i]

\* C11 (as claimed): whenever container answers the query, address returns a
\* record whose face_id is container's answer for each point, with the
\* barycentric coordinates of the point in that face's corners for every face
\* id (0 included) and NaN-filled coordinates where the answer is None.
C11_AddressRecord ==
    (op = "address" /\ Found.err = "none") =>
        /\ res.err = "none"
        /\ res.record
        /\ \A i \in DOMAIN arg.pt :
              /\ res.face_id[i] = FoundFace(i)
              /\ res.coordinates[i] =
                    cartesian_to_barycentric_2D(
                        CornersOfFace(faces, coordinates, FoundFace(i)), arg.pt[i])

\* p lies strictly inside face t
StrictlyInside(t, p) ==
    LET tri == FaceCorners(faces, coordinates, t)
        d1  == Cross(tri[1], tri[2], p.c)
        d2  == Cross(tri[2], tri[3], p.c)
        d3  == Cross(tri[3], tri[1], p.c)
    IN  p.fin /\ ((d1 > 0 /\ d2 > 0 /\ d3 > 0) \/ (d1 < 0 /\ d2 < 0 /\ d3 < 0))

\* C12 (as claimed): unaddress(address(p)) gives back every point p that lies
\* strictly inside some face and for which container named a face, whatever
\* the face's id.
C12_RoundTrip ==
    (op = "unaddress") =>
        \A i \in DOMAIN arg.pt :
            ((\E t \in FaceIds : StrictlyInside(t, arg.pt[i])) /\ FoundFace(i) # None) =>
                /\ ~res.val[i].nan
                /\ res.val[i].c = arg.pt[i].c

\* C13 (as claimed): nearest_data returns for every query point a face id, a
\* distance and a point; for a point with a containing face these are a face
\* that contains it, the distance 0 to the face's plane (the mesh is planar)
\* and the point itself.
C13_NearestData ==
    (op = "nearest_data") =>
        /\ res.err = "none"
        /\ \A i \in DOMAIN arg.pt :
              /\ res.ids[i] \in FaceIds
              /\ (Containing(arg.pt[i]) # {}) =>
                    /\ res.ids[i] \in Containing(arg.pt[i])
                    /\ res.d[i] = 0
                    /\ res.x[i] = arg.pt[i].c

(***************************************************************************)
(* Mesh.scale_interpolation.                                               *)
(*                                                                         *)
(* An interpolation matrix (m points x n vertices) is a sequence of m rows *)
(* of n non-negative integer weights.  A mask is None, 'all' or a list of  *)
(* vertex indices, kept as the set of the indices.                         *)
(***************************************************************************)
MaxRows == 2

MaxVerts == 2

InterpEntries == {0, 1, 2}

NoMask == [kind |-> "none", idx |-> {}]

AllMask == [kind |-> "all", idx |-> {}]

IndexMask(S) == [kind |-> "indices", idx |-> S]

RECURSIVE SumSeq(_)
SumSeq(s) == IF Len(s) = 0 THEN 0 ELSE s[1] + SumSeq(Tail(s))

\* interp.dot(mask_mtx): column j is kept when vertex j is in the mask and
\* zeroed otherwise; without a mask the matrix is left alone
ApplyMask(interp, mask) ==
    IF mask.kind # "indices" THEN interp
    ELSE [i \in DOMAIN interp |->
             [j \in DOMAIN interp[i] |-> IF (j - 1) \in mask.idx THEN interp[i][j] ELSE 0]]

\* r.data.sum() of a row
RowSum(row) == SumSeq(row)

\* the vertices a row may name as its closest: r.indices[np.argsort(r.data)[-1]]
\* is a column of greatest weight when the row has weight, and n otherwise
Closest(row) ==
    IF RowSum(row) > 0
    THEN {j - 1 : j \in {k \in DOMAIN row : \A l \in DOMAIN row : row[l] <= row[k]}}
    ELSE {Len(row)}

\* the array that holds (closest, rowdivs) is a float array as soon as one row
\* contributes 1/ss, and an integer array when every row contributes (n, 0)
ClosestIsFloat(interp) == \E i \in DOMAIN interp : RowSum(interp[i]) > 0

\* scale_interpolation(interp, mask, weights).  The column rescaling by
\* rescale_mtx cannot raise and is not part of the outcome.
scale_interpolation(interp, mask, weights) ==
    IF weights # "none"
    THEN Raise("AttributeError")       \* sps.li_matrix does not exist
    ELSE LET masked == ApplyMask(interp, mask)
         IN  IF Len(masked) = 0
             THEN Raise("ValueError")  \* nothing to unpack into (closest, rowdivs)
             ELSE IF ClosestIsFloat(masked)
             THEN [err |-> "IndexError",   \* mask[closest] with a float index array
                   closest |-> [i \in DOMAIN masked |-> Closest(masked[i])]]
             ELSE [err |-> "TypeError",    \* ~ applied to the float array mask[closest]
                   closest |-> [i \in DOMAIN masked |-> Closest(masked[i])]]

(***************************************************************************)
(* Specification of scale_interpolation.                                   *)
(***************************************************************************)
InterpMatrices ==
    UNION {[1..m -> [1..n -> InterpEntries]] : m \in 0..MaxRows, n \in 1..MaxVerts}

\* the number of columns of a matrix chosen from InterpMatrices
Columns(interp) == IF Len(interp) = 0 THEN MaxVerts ELSE Len(interp[1])

InitScale ==
    /\ faces = <<>>
    /\ properties = EmptyTable
    /\ registrations = NoRegistrations
    /\ meta_data = NoMeta
    /\ coordinates = <<>>
    /\ op = "init"
    /\ arg \in {[interp |-> M, mask |-> NoMask, weights |-> "none"] : M \in InterpMatrices}
    /\ res = <<>>

ScaleInterpolation(mask, weights) ==
    /\ op = "init"
    /\ op' = "scale_interpolation"
    /\ arg' = [arg EXCEPT !.mask = mask, !.weights = weights]
    /\ res' = scale_interpolation(arg.interp, mask, weights)
    /\ UNCHANGED <<faces, properties, coordinates, registrations, meta_data>>

ScaleUnmasked == \E mk \in {NoMask, AllMask} : ScaleInterpolation(mk, "none")

ScaleMasked ==
    \E S \in SUBSET (0..(Columns(arg.interp) - 1)) : ScaleInterpolation(IndexMask(S), "none")

ScaleWeighted ==
    \E mk \in {NoMask} \cup {IndexMask(S) : S \in SUBSET (0..(Columns(arg.interp) - 1))} :
        ScaleInterpolation(mk, "given")

NextScale == ScaleUnmasked \/ ScaleMasked \/ ScaleWeighted

SpecScale == InitScale /\ [][NextScale]_vars

(***************************************************************************)
(* Claims about scale_interpolation.                                       *)
(***************************************************************************)
\* C14 (as claimed): scale_interpolation with mask=None returns, for every m x n
\* matrix of non-negative weights with at least one row, a matrix in which the rows of zero total
\* weight are flagged with NaN and every other row sums to 1.
C14_RowsSumToOne ==
    (op = "scale_interpolation" /\ arg.mask = NoMask /\ arg.weights = "none"
        /\ Len(arg.interp) > 0) =>
        /\ res.err = "none"
        /\ \A i \in DOMAIN arg.interp :
              /\ res.flagged[i] <=> (RowSum(arg.interp[i]) = 0)
              /\ (~res.flagged[i]) => res.rowsum_is_one[i]

\* C15 (as claimed): scale_interpolation with a vertex mask returns, for a
\* matrix with at least one row, a matrix
\* that flags with NaN exactly the rows whose largest-weight vertex in the
\* input is outside the mask or whose masked total weight is zero; unflagged
\* rows keep weight only on masked vertices.
C15_MaskFlags ==
    (op = "scale_interpolation" /\ arg.mask.kind = "indices" /\ arg.weights = "none"
        /\ Len(arg.interp) > 0) =>
        /\ res.err = "none"
        /\ \A i \in DOMAIN arg.interp :
              /\ res.flagged[i] <=>
                    \/ Closest(arg.interp[i]) \cap arg.mask.idx = {}
                    \/ RowSum(ApplyMask(arg.interp, arg.mask)[i]) = 0
              /\ (~res.flagged[i]) => res.support[i] \subseteq arg.mask.idx

(***************************************************************************)
(* Mesh.interpolate.                                                       *)
(*                                                                         *)
(* One call is followed field by field.  res holds the call's progress:    *)
(* pc ("fields" while fields are pending, "done" at the return or raise),  *)
(* the pending fields, the matrix used for every finished field, how often *)
(* each matrix builder was started, which matrices were requested and      *)
(* which are held by the lazy map.                                         *)
(***************************************************************************)
MaxFields == 2

Methods == {"auto", "automatic", "None", "linear", "nearest", "cubic"}

AutoMethods == {"auto", "automatic", "None"}

DTypes == {"float", "int", "str"}

\* data: one vector of vertex_count values, a matrix, a map of field vectors,
\* or the name of a property; dtypes lists the element types of its fields
DataInputs ==
    {[shape |-> sh, dtypes |-> <<t>>] : sh \in {"vector", "name"}, t \in DTypes}
        \cup {[shape |-> "map", dtypes |-> ts] :
                 ts \in UNION {[1..n -> DTypes] : n \in 0..MaxFields}}
        \cup {[shape |-> "matrix", dtypes |-> ts] :
                 ts \in UNION {[1..n -> {"float"}] : n \in 1..MaxFields}}

\* triangle_area of the three mini-triangles of the point in its container:
\* the row of weights before the division by their total
LinearRow(fs, coords, p, f) ==
    LET tri  == FaceCorners(fs, coords, f)
        Area(a, b, c) == IF Cross(a, b, c) >= 0 THEN Cross(a, b, c) ELSE 0 - Cross(a, b, c)
        w    == <<Area(p.c, tri[2], tri[3]), Area(p.c, tri[3], tri[1]), Area(p.c, tri[1], tri[2])>>
    IN  [v \in 1..Len(coords) |->
            SumSeq([j \in 1..3 |-> IF fs[f + 1][j] = v - 1 THEN w[j] ELSE 0])]

\* linear_interpolation(x): a row of zeros for a point without container
linear_interpolation(fs, coords, pts) ==
    LET c == container_batch(fs, coords, pts, DefaultK)
    IN  IF c.err # "none" THEN Raise(c.err)
        ELSE [err |-> "none",
              mtx |-> [i \in DOMAIN pts |->
                          IF c.val[i] = None THEN [v \in 1..Len(coords) |-> 0]
                          ELSE LinearRow(fs, coords, pts[i], c.val[i])]]

\* nearest_interpolation(coords): it reads x, a name it does not have
nearest_interpolation(fs, coords, pts) == Raise("NameError")

\* the value of interps[kind]: the builder of the lazy map
BuildInterp(fs, coords, q, kind) ==
    LET m == IF kind = "nearest" THEN nearest_interpolation(fs, coords, q.x)
             ELSE linear_interpolation(fs, coords, q.x)
    IN  IF m.err # "none" THEN Raise(m.err)
        ELSE scale_interpolation(m.mtx, q.mask, q.weights)

\* _apply_interp: the matrix a field of the given element type asks for
KindFor(t) == IF t = "float" THEN "linear" ELSE "nearest"

\* the builders a request for kind starts, given the matrices the map holds
\* already, when every value is computed as the map is made
EagerForce(memo, kind) == {"nearest", "linear"} \ memo

\* the builders a request for kind starts, given the matrices the lazy map
\* holds already
LazyForce(memo, kind) == {kind} \ memo

Progress(pc, err, pending) ==
    [pc |-> pc, err |-> err, pending |-> pending, out |-> <<>>,
     built |-> [nearest |-> 0, linear |-> 0], requested |-> {}, memo |-> {}]

Done(err) == Progress("done", err, {})

\* interpolate up to the first field
interpolate_call(fs, coords, q) ==
    IF q.method = "linear"
    THEN LET m == linear_interpolation(fs, coords, q.x)
         IN  IF m.err # "none" THEN Done(m.err)
             ELSE Done("AttributeError")   \* interp is a 1-tuple: it has no shape, no tocsr
    ELSE IF q.method = "nearest"
    THEN Done(nearest_interpolation(fs, coords, q.x).err)
    ELSE IF q.method \notin AutoMethods
    THEN Done("ValueError")
    ELSE IF q.data.shape = "matrix"
    THEN Done("NameError")                 \* data.shape[0] == n: interpolate has no n
    ELSE IF q.data.shape = "vector" /\ q.data.dtypes[1] = "str"
    THEN Done("KeyError")                  \* every element is looked up as a property name
    ELSE [Progress("fields", "none", DOMAIN q.data.dtypes) EXCEPT
             !.out = [f \in DOMAIN q.data.dtypes |-> "unset"]]

\* _apply_interp for one pending field f
interpolate_field(fs, coords, q, st, f) ==
    LET kind   == KindFor(q.data.dtypes[f])
        starts == LazyForce(st.memo, kind)
        st1    == [st EXCEPT !.requested = @ \cup {kind},
                             !.built = [k \in {"nearest", "linear"} |->
                                           IF k \in starts THEN @[k] + 1 ELSE @[k]]]
        b      == IF kind \in st.memo THEN [err |-> "none"]
                  ELSE BuildInterp(fs, coords, q, kind)
    IN  IF b.err # "none"
        THEN [st1 EXCEPT !.pc = "done", !.err = b.err]
        ELSE [st1 EXCEPT !.memo = @ \cup starts,
                         !.pending = @ \ {f},
                         !.out = [@ EXCEPT ![f] = kind]]

(***************************************************************************)
(* Specification of interpolate.                                           *)
(***************************************************************************)
InterpolateInputs ==
    {[x |-> <<p>>, data |-> d, method |-> me, mask |-> mk, weights |-> "none"] :
        p \in QueryPoints, d \in DataInputs, me \in Methods, mk \in {NoMask, IndexMask({0})}}

InitInterpolate ==
    /\ \E m \in Meshes : faces = m.faces /\ coordinates = m.coords
    /\ properties = EmptyTable
    /\ registrations = NoRegistrations
    /\ meta_data = NoMeta
    /\ op = "init"
    /\ arg \in InterpolateInputs
    /\ res = <<>>

InterpolateCall ==
    /\ op = "init"
    /\ op' = "interpolate"
    /\ res' = interpolate_call(faces, coordinates, arg)
    /\ UNCHANGED <<faces, properties, coordinates, registrations, meta_data, arg>>

\* the fields of a map are visited in the map's own order
InterpolateField ==
    /\ op = "interpolate"
    /\ res.pc = "fields"
    /\ \E f \in res.pending : res' = interpolate_field(faces, coordinates, arg, res, f)
    /\ UNCHANGED <<faces, properties, coordinates, registrations, meta_data, arg, op>>

InterpolateReturn ==
    /\ op = "interpolate"
    /\ res.pc = "fields"
    /\ res.pending = {}
    /\ res' = [res EXCEPT !.pc = "done"]
    /\ UNCHANGED <<faces, properties, coordinates, registrations, meta_data, arg, op>>

NextInterpolate == InterpolateCall \/ InterpolateField \/ InterpolateReturn

SpecInterpolate == InitInterpolate /\ [][NextInterpolate]_vars

(***************************************************************************)
(* Claims about interpolate.                                               *)
(***************************************************************************)
\* C16 (as claimed): a finished interpolate call with method auto, automatic
\* or None has used the linear matrix for every floating-point field and the
\* nearest matrix for every other field and returns one result per field of
\* the data; a method other than linear, nearest, auto, automatic raises
\* ValueError.
C16_AutoPerField ==
    (op = "interpolate" /\ res.pc = "done") =>
        /\ (arg.method \in AutoMethods) =>
              /\ res.err = "none"
              /\ DOMAIN res.out = DOMAIN arg.data.dtypes
              /\ \A f \in DOMAIN res.out : res.out[f] = KindFor(arg.data.dtypes[f])
        /\ (arg.method \notin AutoMethods \cup {"linear", "nearest"}) =>
              res.err = "ValueError"

Num(v) == [k |-> "num", v |-> v]

NaN == [k |-> "nan", v |-> 0]

Inf == [k |-> "inf", v |-> 0]

PropValues == {Num(0), Num(1), Num(3), NaN, Inf}

NoRange == [given |-> FALSE, lo |-> 0, hi |-> 0]

Between(lo, hi) == [given |-> TRUE, lo |-> lo, hi |-> hi]

\* all_vertices
AllVertices(prop) == 0..(Len(prop) - 1)

\* where_nan and where_inf
WhereNaN(prop) == {v \in AllVertices(prop) : prop[v + 1].k = "nan"}

WhereInf(prop) == {v \in AllVertices(prop) : prop[v + 1].k = "inf"}

\* where_inv: the finite values outside valid_range
WhereInvalid(prop, valid_range) ==
    IF ~valid_range.given THEN {}
    ELSE {v \in AllVertices(prop) \ (WhereNaN(prop) \cup WhereInf(prop)) :
             prop[v + 1].v < valid_range.lo \/ prop[v + 1].v > valid_range.hi}

\* where_nan after the union with where_inv: the entries that are set to null
WhereNull(prop, valid_range) == WhereNaN(prop) \cup WhereInvalid(prop, valid_range)

\* mask after the null entries are taken out of it
PropertyMask(prop, mask, valid_range) ==
    (IF mask.kind = "indices" THEN mask.idx ELSE AllVertices(prop))
        \ WhereNull(prop, valid_range)

\* outliers with outliers=None, weights=None, data_range=None: the infinite
\* values in the mask
PropertyOutliers(prop, mask, valid_range) ==
    PropertyMask(prop, mask, valid_range) \cap WhereInf(prop)

\* prop after prop[where_nan] = null and prop[outliers] = clipped, with the
\* default null (NaN) and clipped (infinity)
Marked(prop, mask, valid_range) ==
    [i \in DOMAIN prop |->
        IF (i - 1) \in PropertyOutliers(prop, mask, valid_range) THEN Inf
        ELSE IF (i - 1) \in WhereNull(prop, valid_range) THEN NaN
        ELSE prop[i]]

\* property(prop, mask=..., valid_range=...): after the marking the function
\* tests yield_weight, a name it does not have (its parameter is yield_weighst)
property(prop, mask, valid_range) ==
    [err |-> "NameError", marked |-> Marked(prop, mask, valid_range)]

\* the weight the objective _f of smooth gives its tether term rs and its edge
\* term re, in halves: ks = smoothness multiplies rs, ke = 1.0 - smoothness
\* multiplies re
TetherTermWeight(smoothness) == smoothness

EdgeTermWeight(smoothness) == 2 - smoothness

\* smooth(prop, smoothness, mask=...): the call of self.property inside smooth
\* lacks a comma between two keyword arguments, which is a syntax error
smooth(prop, smoothness, mask) ==
    [err |-> "SyntaxError",
     ks  |-> TetherTermWeight(smoothness),
     ke  |-> EdgeTermWeight(smoothness)]

(***************************************************************************)
(* Specification of property and smooth.                                   *)
(***************************************************************************)
\* smoothness 0, 0.5 and 1, in halves
SmoothnessValues == {0, 1, 2}

PropertyMasks(n) == {NoMask} \cup {IndexMask(S) : S \in SUBSET (0..(n - 1))}

InitProp ==
    /\ \E m \in {tiny_mesh, one_face_mesh} : faces = m.faces /\ coordinates = m.coords
    /\ properties = EmptyTable
    /\ registrations = NoRegistrations
    /\ meta_data = NoMeta
    /\ op = "init"
    /\ arg \in {[prop |-> pr] : pr \in [1..Len(coordinates) -> PropValues]}
    /\ res = <<>>

Property ==
    /\ op = "init"
    /\ \E mk \in PropertyMasks(Len(arg.prop)), vr \in {NoRange, Between(0, 1)} :
          /\ arg' = [prop |-> arg.prop, mask |-> mk, valid_range |-> vr]
          /\ res' = property(arg.prop, mk, vr)
    /\ op' = "property"
    /\ UNCHANGED <<faces, properties, coordinates, registrations, meta_data>>

Smooth ==
    /\ op = "init"
    /\ \E mk \in PropertyMasks(Len(arg.prop)), sm \in SmoothnessValues :
          /\ arg' = [prop |-> arg.prop, mask |-> mk, smoothness |-> sm]
          /\ res' = smooth(arg.prop, sm, mk)
    /\ op' = "smooth"
    /\ UNCHANGED <<faces, properties, coordinates, registrations, meta_data>>

NextProp == Property \/ Smooth

SpecProp == InitProp /\ [][NextProp]_vars

(***************************************************************************)
(* Claims about property and smooth.                                       *)
(***************************************************************************)
\* the vertices the given mask names
GivenMask(prop, mask) == IF mask.kind = "indices" THEN mask.idx ELSE AllVertices(prop)

\* C18 (as claimed): smooth returns an array with one entry per vertex that
\* holds NaN at every vertex outside the given mask or with a NaN value, and a
\* solved (non-NaN) value at every vertex inside the effective mask.
C18_SmoothOutput ==
    (op = "smooth") =>
        /\ res.err = "none"
        /\ Len(res.val) = Len(arg.prop)
        /\ \A v \in AllVertices(arg.prop) :
              (res.val[v + 1] = NaN) <=>
                  (v \notin GivenMask(arg.prop, arg.mask) \/ v \in WhereNaN(arg.prop))

\* C19 (as claimed): the objective of smooth weights its edge term by
\* smoothness and its tether term by 1 - smoothness, and with smoothness = 0
\* smooth returns the input value at every tethered vertex (in the mask, not
\* NaN, not infinite).
C19_SmoothnessZero ==
    (op = "smooth") =>
        /\ res.ke = arg.smoothness
        /\ res.ks = 2 - arg.smoothness
        /\ (arg.smoothness = 0) =>
              /\ res.err = "none"
              /\ \A v \in GivenMask(arg.prop, arg.mask) :
                    (arg.prop[v + 1].k = "num") => (res.val[v + 1] = arg.prop[v + 1])

\* C20 (as claimed): property returns an array that holds the null value NaN
\* at every vertex outside the mask, with a NaN value or with a value outside
\* valid_range, and the original value at every in-mask vertex that is not an
\* outlier.
C20_PropertyNull ==
    (op = "property") =>
        /\ res.err = "none"
        /\ \A v \in AllVertices(arg.prop) :
              /\ (v \notin GivenMask(arg.prop, arg.mask)
                    \/ v \in WhereNull(arg.prop, arg.valid_range)) => (res.val[v + 1] = NaN)
              /\ (v \in PropertyMask(arg.prop, arg.mask, arg.valid_range)
                    /\ arg.prop[v + 1].k = "num") => (res.val[v + 1] = arg.prop[v + 1])

(***************************************************************************)
(* VertexSet.property with outliers, data_range and weights.               *)
(***************************************************************************)
NoOutliers == [given |-> FALSE, idx |-> {}]

OutlierList(S) == [given |-> TRUE, idx |-> S]

NoWeights == [given |-> FALSE, w |-> <<>>]

Weights(w) == [given |-> TRUE, w |-> w]

\* weight_min's default
DefaultWeightMin == 0

\* low_weight: with weights given, the vertices whose weight, negative weights
\* raised to 0, is at or below weight_min
LowWeight(weights, weight_min) ==
    IF ~weights.given THEN {}
    ELSE {v \in 0..(Len(weights.w) - 1) :
             (IF weights.w[v + 1] < 0 THEN 0 ELSE weights.w[v + 1]) <= weight_min}

\* the in-mask values below data_range's min or above its max; an infinite
\* value is above every max
OutOfDataRange(prop, pmask, data_range) ==
    IF ~data_range.given THEN {}
    ELSE {v \in pmask :
             \/ prop[v + 1].k = "inf"
             \/ prop[v + 1].k = "num"
                  /\ (prop[v + 1].v < data_range.lo \/ prop[v + 1].v > data_range.hi)}

\* outliers as property builds them: the listed outliers that are in the mask,
\* all low-weight vertices, the in-mask values outside data_range and the
\* in-mask infinite values
AllOutliers(prop, mask, valid_range, outliers, data_range, weights) ==
    LET pmask == PropertyMask(prop, mask, valid_range)
    IN  (outliers.idx \cap pmask)
            \cup LowWeight(weights, DefaultWeightMin)
            \cup OutOfDataRange(prop, pmask, data_range)
            \cup (pmask \cap WhereInf(prop))

\* prop after prop[where_nan] = null followed by prop[outliers] = clipped
MarkedWithOutliers(prop, mask, valid_range, outliers, data_range, weights) ==
    [i \in DOMAIN prop |->
        IF (i - 1) \in AllOutliers(prop, mask, valid_range, outliers, data_range, weights)
        THEN Inf
        ELSE IF (i - 1) \in WhereNull(prop, valid_range) THEN NaN
        ELSE prop[i]]

\* property(prop, mask, valid_range, outliers, data_range, weights): the marking
\* is followed by the test of the undefined name yield_weight
property_outliers(prop, mask, valid_range, outliers, data_range, weights) ==
    [err    |-> "NameError",
     marked |-> MarkedWithOutliers(prop, mask, valid_range, outliers, data_range, weights)]

(***************************************************************************)
(* Specification of property with outliers.                                *)
(***************************************************************************)
InitMark ==
    /\ faces = one_face_mesh.faces
    /\ coordinates = one_face_mesh.coords
    /\ properties = EmptyTable
    /\ registrations = NoRegistrations
    /\ meta_data = NoMeta
    /\ op = "init"
    /\ arg \in {[prop |-> pr] : pr \in [1..Len(coordinates) -> PropValues]}
    /\ res = <<>>

PropertyOutliersCall(weights) ==
    /\ op = "init"
    /\ \E mk \in {NoMask, IndexMask({0}), IndexMask({0, 1})},
          vr \in {NoRange, Between(0, 1)},
          ol \in {NoOutliers, OutlierList({1}), OutlierList({2})},
          dr \in {NoRange, Between(0, 1)} :
          /\ arg' = [prop |-> arg.prop, mask |-> mk, valid_range |-> vr,
                     outliers |-> ol, data_range |-> dr, weights |-> weights]
          /\ res' = property_outliers(arg.prop, mk, vr, ol, dr, weights)
    /\ op' = "property"
    /\ UNCHANGED <<faces, properties, coordinates, registrations, meta_data>>

PropertyUnweighted == PropertyOutliersCall(NoWeights)

PropertyWeighted ==
    \E w \in {<<1, 0, 1>>, <<0, 1, 1>>, <<1, 1, 1>>} : PropertyOutliersCall(Weights(w))

NextMark == PropertyUnweighted \/ PropertyWeighted

SpecMark == InitMark /\ [][NextMark]_vars

(***************************************************************************)
(* Claims about the precedence of the mask over the outliers.              *)
(***************************************************************************)
\* the vertices that are null: out of the given mask, NaN or outside valid_range
NullVertices == (AllVertices(arg.prop) \ GivenMask(arg.prop, arg.mask))
                    \cup WhereNull(arg.prop, arg.valid_range)

\* the vertices that qualify as outliers in any of the four ways
QualifiesAsOutlier(v) ==
    \/ arg.outliers.given /\ v \in arg.outliers.idx
    \/ v \in LowWeight(arg.weights, DefaultWeightMin)
    \/ arg.prop[v + 1].k = "inf"
    \/ arg.data_range.given /\ arg.prop[v + 1].k = "num"
          /\ (arg.prop[v + 1].v < arg.data_range.lo \/ arg.prop[v + 1].v > arg.data_range.hi)

\* C21 (as claimed): in the array that property has marked, a null vertex
\* whose own value is not infinite never holds the clipped value, whichever way
\* it qualifies as an outlier, and every other vertex that qualifies as an
\* outlier holds the clipped value.
C21_MaskPrecedence ==
    (op = "property") =>
        \A v \in AllVertices(arg.prop) :
            /\ (v \in NullVertices /\ arg.prop[v + 1] # Inf) => (res.marked[v + 1] # Inf)
            /\ (v \notin NullVertices /\ QualifiesAsOutlier(v)) => (res.marked[v + 1] = Inf)

(***************************************************************************)
(* Topology: registrations, register and interpolate.                      *)
(*                                                                         *)
(* _registrations is a map from registration names to entries.  An entry   *)
(* is lazy (a function the lazy map calls on first use) or a plain value;  *)
(* its value is a Mesh (mesh) or raw coordinates, and a Mesh is built on   *)
(* the topology's own tess object (own) or on another one.                 *)
(***************************************************************************)
RegNames == {"a", "b"}

Entry(lazy, mesh, own) == [lazy |-> lazy, mesh |-> mesh, own |-> own]

Entries ==
    {Entry(lz, FALSE, FALSE) : lz \in BOOLEAN}
        \cup {Entry(lz, TRUE, ow) : lz \in BOOLEAN, ow \in BOOLEAN}

RegMaps == UNION {[S -> Entries] : S \in SUBSET RegNames}

\* a Mesh given with another tess, left as it was given
KeepAsGiven(e) == e

\* _lambda_reg_check: a Mesh on the topology's tess is kept, a Mesh on another
\* tess is copied onto it, raw coordinates become Mesh(tess, val)
Coerce(e) == [e EXCEPT !.mesh = TRUE, !.own = TRUE]

\* topo.registrations: _reg_check is called for every key as the map is made;
\* for a key that is not lazy it reads val, which only the lazy branch defines
topo_registrations(regs) ==
    IF \E k \in DOMAIN regs : ~regs[k].lazy
    THEN Raise("NameError")
    ELSE [err |-> "none", val |-> [k \in DOMAIN regs |-> Coerce(regs[k])]]

\* map.set(name, e)
MapSet(m, name, e) == [k \in DOMAIN m \cup {name} |-> IF k = name THEN e ELSE m[k]]

\* the _registrations of the copy that register makes: the lazy entries of
\* self.registrations and the new Mesh as a plain value
RegisteredMap(regs, name, coords) ==
    MapSet([k \in DOMAIN regs |-> Entry(TRUE, TRUE, TRUE)], name,
           IF coords.mesh THEN Entry(FALSE, TRUE, coords.own) ELSE Entry(FALSE, TRUE, TRUE))

\* register(name, coords); coords.same says that coords is the very Mesh that
\* self.registrations[name] yields, memoized that the lazy map no longer
\* reports name as lazy
register(regs, name, coords, memoized) ==
    LET r == topo_registrations(regs)
    IN  IF r.err # "none" THEN Raise(r.err)
        ELSE IF coords.mesh /\ name \in DOMAIN regs /\ memoized /\ coords.same
        THEN [err |-> "none", self |-> TRUE, regs |-> regs]
        ELSE [err |-> "none", self |-> FALSE, regs |-> RegisteredMap(regs, name, coords)]

\* Topology.interpolate(x, data): it reads topo, a name it does not have
topology_interpolate(regs, other) == Raise("NameError")

(***************************************************************************)
(* Specification of Topology.                                              *)
(***************************************************************************)
CoordArgs ==
    {[mesh |-> FALSE, own |-> FALSE, same |-> FALSE]}
        \cup {[mesh |-> TRUE, own |-> ow, same |-> FALSE] : ow \in BOOLEAN}

InitTopo ==
    /\ faces = tiny_mesh.faces
    /\ coordinates = <<>>
    /\ properties = EmptyTable
    /\ registrations \in RegMaps
    /\ meta_data = NoMeta
    /\ op = "init"
    /\ arg = <<>>
    /\ res = <<>>

\* registering raw coordinates or a Mesh that is not registered yet
Register ==
    \E name \in RegNames, c \in CoordArgs :
        /\ op' = "register"
        /\ arg' = [name |-> name, coords |-> c]
        /\ res' = register(registrations, name, c, FALSE)
        /\ UNCHANGED <<faces, properties, coordinates, registrations, meta_data>>

\* registering, under its own name, the Mesh that registrations yields for it
RegisterSame ==
    \E name \in DOMAIN registrations, memoized \in BOOLEAN :
        /\ topo_registrations(registrations).err = "none"
        /\ op' = "register"
        /\ arg' = [name |-> name, coords |-> [mesh |-> TRUE, own |-> TRUE, same |-> TRUE]]
        /\ res' = register(registrations, name, arg'.coords, memoized)
        /\ UNCHANGED <<faces, properties, coordinates, registrations, meta_data>>

\* the caller goes on with the topology that register returned
Adopt ==
    /\ op = "register"
    /\ res.err = "none"
    /\ op' = "adopt"
    /\ registrations' = res.regs
    /\ UNCHANGED <<faces, properties, coordinates, meta_data, arg, res>>

GetRegistrations ==
    /\ op' = "registrations"
    /\ arg' = <<>>
    /\ res' = topo_registrations(registrations)
    /\ UNCHANGED <<faces, properties, coordinates, registrations, meta_data>>

TopologyInterpolate ==
    \E other \in SUBSET RegNames :
        /\ op' = "topology_interpolate"
        /\ arg' = [other |-> other]
        /\ res' = topology_interpolate(registrations, other)
        /\ UNCHANGED <<faces, properties, coordinates, registrations, meta_data>>

NextTopo == Register \/ RegisterSame \/ Adopt \/ GetRegistrations \/ TopologyInterpolate

SpecTopo == InitTopo /\ [][NextTopo]_vars

(***************************************************************************)
(* Claims about Topology.                                                  *)
(***************************************************************************)
\* C22 (as claimed): Topology.interpolate raises RuntimeError when the two
\* topologies share no registration name, and otherwise returns a result or
\* raises ValueError.
C22_TopologyInterpolate ==
    (op = "topology_interpolate") =>
        IF arg.other \cap DOMAIN registrations = {}
        THEN res.err = "RuntimeError"
        ELSE res.err \in {"none", "ValueError"}

\* C23 (as claimed): register(name, coords) returns a Topology whose
\* registrations can be read and are those of the receiver with name mapped to
\* a Mesh on the topology's tess and every other name kept; registering the
\* very Mesh that is registered under name returns the receiver itself.
C23_Register ==
    (op = "register") =>
        /\ res.err = "none"
        /\ IF arg.coords.same THEN res.self
           ELSE /\ topo_registrations(res.regs).err = "none"
                /\ DOMAIN topo_registrations(res.regs).val = DOMAIN registrations \cup {arg.name}
                /\ \A k \in DOMAIN registrations \ {arg.name} :
                      topo_registrations(res.regs).val[k] = Coerce(registrations[k])

PropNames == {"p", "q"}

MetaKeys == {"m", "n"}

\* an itable of the user's columns S, one row per vertex
NamedTable(fs, S) ==
    [ncols |-> Cardinality(S), rows |-> IF S = {} THEN <<>> ELSE labels(fs), names |-> S]

\* self.copy(_properties=pp)
CopyProps(fs, pp) ==
    IF /\ validate_vertex_properties_size(pp, vertex_count(fs))
       /\ validate_properties(pp, vertex_count(fs))
    THEN [err |-> "none", self |-> FALSE, properties |-> pp]
    ELSE Raise("ValueError")

\* with_prop(name=column): _properties.merge yields a new table
with_prop(fs, props, name) == CopyProps(fs, NamedTable(fs, props.names \cup {name}))

\* wout_prop(name): itable.discard yields the table itself for an absent name
wout_prop(fs, props, name) ==
    IF name \notin props.names
    THEN [err |-> "none", self |-> TRUE, properties |-> props]
    ELSE CopyProps(fs, NamedTable(fs, props.names \ {name}))

\* with_meta(key=value): pimms.merge yields a new map
with_meta(md, key) == [err |-> "none", self |-> FALSE, meta_data |-> md \cup {key}]

\* wout_meta(key): pmap.discard yields the map itself for an absent key
wout_meta(md, key) ==
    IF key \notin md
    THEN [err |-> "none", self |-> TRUE, meta_data |-> md]
    ELSE [err |-> "none", self |-> FALSE, meta_data |-> md \ {key}]

\* Mesh.submesh: its first statement reads tess, which is not a name of the
\* method or of the module
submesh(fs, coords, sel) == Raise("NameError")

\* Mesh.select: self.map is evaluated first, and Mesh does not define map
mesh_select(fs, coords, sel) == Raise("AttributeError")

(***************************************************************************)
(* Specification of the copying operations.                                *)
(***************************************************************************)
LazyMaps == {m \in RegMaps : \A k \in DOMAIN m : m[k].lazy /\ m[k].mesh /\ m[k].own}

AllLabels(fs) == [kind |-> "labels", v |-> labels(fs)]

InitFrame ==
    /\ \E m \in {one_face_mesh, tiny_mesh} : faces = m.faces /\ coordinates = m.coords
    /\ \E S \in SUBSET PropNames : properties = NamedTable(faces, S)
    /\ registrations \in LazyMaps
    /\ meta_data \in SUBSET MetaKeys
    /\ op = "init"
    /\ arg = <<>>
    /\ res = <<>>

WithProp ==
    \E name \in PropNames :
        /\ op' = "with_prop"
        /\ arg' = [name |-> name]
        /\ res' = with_prop(faces, properties, name)
        /\ UNCHANGED <<faces, properties, coordinates, registrations, meta_data>>

WoutProp ==
    \E name \in PropNames :
        /\ op' = "wout_prop"
        /\ arg' = [name |-> name]
        /\ res' = wout_prop(faces, properties, name)
        /\ UNCHANGED <<faces, properties, coordinates, registrations, meta_data>>

WithMeta ==
    \E key \in MetaKeys :
        /\ op' = "with_meta"
        /\ arg' = [name |-> key]
        /\ res' = with_meta(meta_data, key)
        /\ UNCHANGED <<faces, properties, coordinates, registrations, meta_data>>

WoutMeta ==
    \E key \in MetaKeys :
        /\ op' = "wout_meta"
        /\ arg' = [name |-> key]
        /\ res' = wout_meta(meta_data, key)
        /\ UNCHANGED <<faces, properties, coordinates, registrations, meta_data>>

FrameSubtess(sel) ==
    /\ op' = "subtess"
    /\ arg' = sel
    /\ res' = subtess(faces, properties, sel)
    /\ UNCHANGED <<faces, properties, coordinates, registrations, meta_data>>

FrameSubtessMask == \E sel \in Masks(faces) : FrameSubtess(sel)

FrameSubtessLabels == FrameSubtess(AllLabels(faces))

Submesh ==
    \E sel \in Masks(faces) :
        /\ op' = "submesh"
        /\ arg' = sel
        /\ res' = submesh(faces, coordinates, sel)
        /\ UNCHANGED <<faces, properties, coordinates, registrations, meta_data>>

Select ==
    \E sel \in Masks(faces) :
        /\ op' = "select"
        /\ arg' = sel
        /\ res' = mesh_select(faces, coordinates, sel)
        /\ UNCHANGED <<faces, properties, coordinates, registrations, meta_data>>

FrameRegister ==
    \E name \in RegNames, c \in CoordArgs :
        /\ op' = "register"
        /\ arg' = [name |-> name, coords |-> c]
        /\ res' = register(registrations, name, c, FALSE)
        /\ UNCHANGED <<faces, properties, coordinates, registrations, meta_data>>

\* the Mesh read from registrations[name] is registered again under name
FrameRegisterSame ==
    \E name \in DOMAIN registrations :
        /\ op' = "register"
        /\ arg' = [name |-> name, coords |-> [mesh |-> TRUE, own |-> TRUE, same |-> TRUE]]
        /\ res' = register(registrations, name, arg'.coords, TRUE)
        /\ UNCHANGED <<faces, properties, coordinates, registrations, meta_data>>

NextFrame ==
    \/ WithProp \/ WoutProp \/ WithMeta \/ WoutMeta
    \/ FrameSubtessMask \/ FrameSubtessLabels \/ Submesh \/ Select \/ FrameRegister \/ FrameRegisterSame

SpecFrame == InitFrame /\ [][NextFrame]_vars

\* the calls that ask for no change
ChangesNothing ==
    \/ op = "wout_prop" /\ arg.name \notin properties.names
    \/ op = "wout_meta" /\ arg.name \notin meta_data
    \/ op \in {"subtess", "submesh", "select"} /\ Selected(faces, arg) = Range(labels(faces))
    \/ op = "register" /\ arg.coords.same

\* C25 (as claimed): no copying operation changes its receiver, and a call
\* that changes nothing returns the receiver itself.
C25_Frame ==
    [][/\ UNCHANGED <<faces, properties, coordinates, registrations, meta_data>>
       /\ ChangesNothing' => (res'.err = "none" /\ res'.self)]_vars

(***************************************************************************)
(* Construction of VertexSet, Tesselation and Mesh.                        *)
(*                                                                         *)
(* An array is the sequence of its rows.  The properties argument is       *)
(* Omitted (None) or a table.                                              *)
(***************************************************************************)
MaxDim == 4

Shape(a) == <<Len(a), IF Len(a) = 0 THEN 0 ELSE Len(a[1])>>

Transpose(a) == [j \in 1..Shape(a)[2] |-> [i \in 1..Shape(a)[1] |-> a[i][j]]]

Omitted == [given |-> FALSE, ncols |-> 0, rows |-> <<>>]

GivenTable(c, k) ==
    [given |-> TRUE, ncols |-> c, rows |-> IF c = 0 THEN <<>> ELSE [j \in 1..k |-> j - 1]]

\* the faces parameter: a 3 x m array, its columns the faces
tess_faces(tris) ==
    LET t    == IF Shape(tris)[1] # 3 THEN Transpose(tris) ELSE tris
        cols == Transpose(t)
    IN  IF Shape(t)[1] # 3 THEN Raise("ValueError") ELSE [err |-> "none", val |-> cols]

\* VertexSet(labels, properties): validate_vertex_properties_size
VertexSet_construct(n, props) ==
    IF ~props.given \/ validate_vertex_properties_size(props, n)
    THEN [err |-> "none", vertex_count |-> n]
    ELSE Raise("ValueError")

\* Tesselation(faces, properties): the faces parameter, then the inherited
\* requirement, then validate_properties, which reads _properties.column_names
Tesselation_construct(tris, props) ==
    LET f == tess_faces(tris)
    IN  IF f.err # "none" THEN Raise(f.err)
        ELSE IF VertexSet_construct(vertex_count(f.val), props).err # "none"
        THEN Raise("ValueError")
        ELSE IF ~props.given THEN Raise("AttributeError")
        ELSE IF ~validate_properties(props, vertex_count(f.val)) THEN Raise("ValueError")
        ELSE [err |-> "none", faces |-> f.val, vertex_count |-> vertex_count(f.val)]

\* the coordinates parameter: a d x n array
mesh_coordinates(crds) ==
    LET c == IF Shape(crds)[1] \notin {2, 3} THEN Transpose(crds) ELSE crds
    IN  IF Shape(c)[1] \notin {2, 3} THEN Raise("ValueError") ELSE [err |-> "none", val |-> c]

validate_tess(n, crds) ==
    /\ n = Shape(crds)[2]
    /\ Shape(crds)[1] \in {2, 3}

\* Mesh(tess, coordinates) on a Tesselation of n vertices
Mesh_construct(n, crds) ==
    LET c == mesh_coordinates(crds)
    IN  IF c.err # "none" THEN Raise(c.err)
        ELSE IF ~validate_tess(n, c.val) THEN Raise("ValueError")
        ELSE [err |-> "none", coordinates |-> c.val, vertex_count |-> n]

(***************************************************************************)
(* Specification of construction.                                          *)
(***************************************************************************)
FaceInputs ==
    {one_face_mesh.faces, Transpose(one_face_mesh.faces), tiny_mesh.faces,
     <<(<<0, 1, 2>>), (<<1, 2, 3>>)>>, Transpose(fan4_mesh.faces), fan4_mesh.faces,
     <<(<<0, 1>>), (<<1, 2>>)>>, <<(<<0, 1, 2, 3>>), (<<1, 2, 3, 0>>)>>}

CoordInputs == {[i \in 1..r |-> [j \in 1..c |-> i - j]] : r \in 1..MaxDim, c \in 1..MaxDim}

PropInputs == {Omitted} \cup {GivenTable(c, k) : c \in 0..1, k \in 1..MaxDim}

InitConstruct ==
    /\ faces \in FaceInputs
    /\ coordinates \in CoordInputs
    /\ properties \in PropInputs
    /\ registrations = NoRegistrations
    /\ meta_data = NoMeta
    /\ op = "init"
    /\ arg = <<>>
    /\ res = <<>>

MakeVertexSet ==
    \E n \in 1..MaxDim :
        /\ op' = "VertexSet"
        /\ arg' = [vertex_count |-> n]
        /\ res' = VertexSet_construct(n, properties)
        /\ UNCHANGED <<faces, properties, coordinates, registrations, meta_data>>

MakeTesselation ==
    /\ op' = "Tesselation"
    /\ arg' = <<>>
    /\ res' = Tesselation_construct(faces, properties)
    /\ UNCHANGED <<faces, properties, coordinates, registrations, meta_data>>

\* Mesh(tess, coordinates) on a Tesselation that was constructed from faces
MakeMesh ==
    /\ properties.given
    /\ Tesselation_construct(faces, properties).err = "none"
    /\ op' = "Mesh"
    /\ arg' = [vertex_count |-> Tesselation_construct(faces, properties).vertex_count]
    /\ res' = Mesh_construct(arg'.vertex_count, coordinates)
    /\ UNCHANGED <<faces, properties, coordinates, registrations, meta_data>>

NextConstruct == MakeVertexSet \/ MakeTesselation \/ MakeMesh

SpecConstruct == InitConstruct /\ [][NextConstruct]_vars

\* a non-empty property table whose row count differs from the vertex count
BadTable(props, n) == props.given /\ row_count(props) # 0 /\ row_count(props) # n

\* the vertex count of the faces of an array, one of whose dimensions is 3
VertexCountOf(tris) ==
    IF Shape(tris)[1] = 3 THEN vertex_count(Transpose(tris)) ELSE vertex_count(tris)

\* a d x n or n x d array with d in {2, 3} and n the vertex count
GoodCoordinates(crds, n) ==
    \/ Shape(crds)[1] \in {2, 3} /\ Shape(crds)[2] = n
    \/ Shape(crds)[2] \in {2, 3} /\ Shape(crds)[1] = n

\* C26 (as claimed): construction raises ValueError exactly in the listed
\* cases and succeeds in every other: a face array neither of whose dimensions
\* is 3, a coordinate array that is not d x n or n x d with d in {2, 3} and n
\* the vertex count, a non-empty property table with the wrong number of rows.
C26_Construction ==
    /\ (op = "VertexSet") =>
          res.err = IF BadTable(properties, arg.vertex_count) THEN "ValueError" ELSE "none"
    /\ (op = "Tesselation") =>
          res.err = IF 3 \notin {Shape(faces)[1], Shape(faces)[2]} THEN "ValueError"
                    ELSE IF BadTable(properties, VertexCountOf(faces)) THEN "ValueError"
                    ELSE "none"
    /\ (op = "Mesh") =>
          res.err = IF GoodCoordinates(coordinates, arg.vertex_count) THEN "none" ELSE "ValueError"

(***************************************************************************)
(* The properties table.                                                   *)
(*                                                                         *)
(* A properties table is modelled by its row count and, for each column    *)
(* name, where the column's values come from: "synth" for the indices,     *)
(* labels or coordinates the object supplies, "user" for a column the      *)
(* caller gave.                                                            *)
(***************************************************************************)
ColumnNames == {"index", "label", "p"}

\* the table a caller gives: the columns S, one row per vertex
UserTable(fs, S) ==
    [given |-> TRUE, ncols |-> Cardinality(S),
     rows |-> IF S = {} THEN <<>> ELSE labels(fs), names |-> S]

\* m1 merged with m2: the right-hand column wins
MergeColumns(m1, m2) ==
    [k \in DOMAIN m1 \cup DOMAIN m2 |-> IF k \in DOMAIN m2 THEN m2[k] ELSE m1[k]]

UserColumns(props) == [k \in props.names |-> "user"]

\* VertexSet.properties: _properties.set('index', indices).set('label', labels)
vset_properties(fs, props) ==
    IF ~props.given THEN Raise("AttributeError")
    ELSE [err |-> "none", nrows |-> vertex_count(fs),
          cols |-> MergeColumns(UserColumns(props),
                                [k \in {"index", "label"} |-> "synth"])]

\* Topology.properties: pimms.merge(tess.properties, _properties)
topo_properties(fs, tprops, props) ==
    LET t == vset_properties(fs, tprops)
    IN  IF t.err # "none" THEN t
        ELSE [err |-> "none", nrows |-> vertex_count(fs),
              cols |-> MergeColumns(t.cols, UserColumns(props))]

\* Mesh.properties: pimms.merge(tess.properties, _properties, coordinates=...)
mesh_properties(fs, tprops, props) ==
    LET t == topo_properties(fs, tprops, props)
    IN  IF t.err # "none" THEN t
        ELSE [t EXCEPT !.cols = MergeColumns(t.cols, [k \in {"coordinates"} |-> "synth"])]

(***************************************************************************)
(* Specification of the properties table.                                  *)
(***************************************************************************)
UserTables(fs) == {UserTable(fs, S) : S \in SUBSET ColumnNames}

InitTable ==
    /\ \E m \in Meshes : faces = m.faces /\ coordinates = m.coords
    /\ properties \in {Omitted} \cup UserTables(faces)
    /\ registrations = NoRegistrations
    /\ meta_data = NoMeta
    /\ op = "init"
    /\ arg = <<>>
    /\ res = <<>>

\* VertexSet(labels, properties).properties
VertexSetProperties ==
    /\ op' = "vset.properties"
    /\ arg' = <<>>
    /\ res' = vset_properties(faces, properties)
    /\ UNCHANGED <<faces, properties, coordinates, registrations, meta_data>>

\* Tesselation(faces, properties).properties, for a Tesselation that was constructed
TesselationProperties ==
    /\ properties.given
    /\ op' = "tess.properties"
    /\ arg' = <<>>
    /\ res' = vset_properties(faces, properties)
    /\ UNCHANGED <<faces, properties, coordinates, registrations, meta_data>>

\* Mesh(tess, coordinates, properties=properties).properties, tess given any table
MeshProperties ==
    \E tprops \in UserTables(faces) :
        /\ properties.given
        /\ op' = "mesh.properties"
        /\ arg' = [tess |-> tprops]
        /\ res' = mesh_properties(faces, tprops, properties)
        /\ UNCHANGED <<faces, properties, coordinates, registrations, meta_data>>

\* Topology(tess, registrations, properties).properties, tess given any table
TopologyProperties ==
    \E tprops \in UserTables(faces) :
        /\ properties.given
        /\ op' = "topo.properties"
        /\ arg' = [tess |-> tprops]
        /\ res' = topo_properties(faces, tprops, properties)
        /\ UNCHANGED <<faces, properties, coordinates, registrations, meta_data>>

NextTable ==
    VertexSetProperties \/ TesselationProperties \/ MeshProperties \/ TopologyProperties

SpecTable == InitTable /\ [][NextTable]_vars

PropertiesOps == {"vset.properties", "tess.properties", "mesh.properties", "topo.properties"}

\* C27 (as claimed): the properties table of every vertex set, Tesselation,
\* Mesh and Topology, with or without user properties, has one row per vertex
\* and the columns index and label supplied by the object, whatever columns of
\* those names the user gave.
C27_PropertiesTable ==
    (op \in PropertiesOps) =>
        /\ res.err = "none"
        /\ res.nrows = vertex_count(faces)
        /\ {"index", "label"} \subseteq DOMAIN res.cols
        /\ res.cols["index"] = "synth"
        /\ res.cols["label"] = "synth"

(***************************************************************************)
(* Tesselation.neighborhoods.                                              *)
(***************************************************************************)
\* vertex_face_index: d = {k:[] for _ in labels} reads k, which no scope
\* defines, at the first label
vertex_face_index(fs) ==
    IF vertex_count(fs) = 0 THEN [err |-> "none", val |-> <<>>] ELSE Raise("NameError")

\* what vertex_faces is meant to hold for u: the faces that contain u, in face order
FacesAt(fs, u) ==
    LET Has(f) == u \in Range(f)
    IN  SelectSeq(fs, Has)

\* the edge opposite u in face f, in the face's direction
OppositeEdge(f, u) ==
    IF f[3] = u THEN <<f[1], f[2]>> ELSE IF f[1] = u THEN <<f[2], f[3]>> ELSE <<f[3], f[1]>>

\* nedges for u
NeighborhoodEdges(fs, u) == [j \in DOMAIN FacesAt(fs, u) |-> OppositeEdge(FacesAt(fs, u)[j], u)]

\* the loop of _order_neighborhood from pass i on (i counts from 1)
RECURSIVE OrderFrom(_, _, _)
OrderFrom(edges, ring, i) ==
    IF i > Len(edges) THEN [err |-> "none", val |-> ring]
    ELSE IF i > Len(ring) THEN Raise("IndexError")
    ELSE LET next == {j \in DOMAIN edges : edges[j][1] = ring[i]}
         IN  IF next = {} THEN OrderFrom(edges, ring, i + 1)
             ELSE OrderFrom(edges, Append(ring, edges[SetMin(next)][2]), i + 1)

_order_neighborhood(edges) ==
    IF Len(edges) = 0 THEN Raise("IndexError")
    ELSE OrderFrom(edges, <<edges[1][2]>>, 1)

\* neighborhoods depends on vertex_faces, which depends on vertex_face_index
neighborhoods(fs) ==
    IF vertex_face_index(fs).err # "none" THEN Raise(vertex_face_index(fs).err)
    ELSE [err |-> "none",
          val |-> [j \in DOMAIN labels(fs) |->
                      _order_neighborhood(NeighborhoodEdges(fs, labels(fs)[j])).val]]

(***************************************************************************)
(* Specification of neighborhoods.                                         *)
(***************************************************************************)
\* the same triangles with the faces in another order
FaceOrders(fs) ==
    {p \in [DOMAIN fs -> Range(fs)] : Range(p) = Range(fs)}

InitRing ==
    /\ \E m \in Meshes : faces \in FaceOrders(m.faces) /\ coordinates = m.coords
    /\ properties = EmptyTable
    /\ registrations = NoRegistrations
    /\ meta_data = NoMeta
    /\ op = "init"
    /\ arg = <<>>
    /\ res = <<>>

GetNeighborhoods ==
    /\ op' = "neighborhoods"
    /\ arg' = <<>>
    /\ res' = neighborhoods(faces)
    /\ UNCHANGED <<faces, properties, coordinates, registrations, meta_data>>

\* the ordering step alone, on the edges around one vertex
OrderNeighborhood ==
    \E u \in Range(labels(faces)) :
        /\ op' = "_order_neighborhood"
        /\ arg' = [u |-> u]
        /\ res' = _order_neighborhood(NeighborhoodEdges(faces, u))
        /\ UNCHANGED <<faces, properties, coordinates, registrations, meta_data>>

NextRing == GetNeighborhoods \/ OrderNeighborhood

SpecRing == InitRing /\ [][NextRing]_vars

\* the labels that share a face with u
Neighbors(fs, u) == UNION {Range(fs[j]) : j \in {k \in DOMAIN fs : u \in Range(fs[k])}} \ {u}

\* ring lists every neighbour of u once, each followed by the next one around u
IsRing(fs, u, ring) ==
    /\ Range(ring) = Neighbors(fs, u)
    /\ Len(ring) = Cardinality(Neighbors(fs, u))
    /\ \A i \in 1..(Len(ring) - 1) :
          <<ring[i], ring[i + 1]>> \in Range(NeighborhoodEdges(fs, u))

\* C28 (as claimed): neighborhoods never raises, and the ring of every vertex,
\* interior or boundary, lists each neighbour exactly once in cyclic order,
\* whichever face comes first.
C28_Neighborhoods ==
    /\ (op = "neighborhoods") =>
          /\ res.err = "none"
          /\ \A j \in DOMAIN labels(faces) : IsRing(faces, labels(faces)[j], res.val[j])
    /\ (op = "_order_neighborhood") =>
          /\ res.err = "none"
          /\ IsRing(faces, arg.u, res.val)

(***************************************************************************)
(* The containing-triangle searches and the queries they issue.            *)
(***************************************************************************)
MaxSearchK == 5

\* container(pt, k) for one point, with the face_hash.query calls it issues:
\* the first query is followed by an exception on every path, so that
\* _find_triangle_search is not entered from here
point_search(fs, coords, p, k) ==
    [err |-> container_point(fs, coords, p, k).err, queries |-> <<k>>]

\* _find_triangle_search(x, k) called on its own: the cap test comes before the
\* query, and the query reads self.facee_hash
triangle_search(k) ==
    [err |-> find_triangle_search(k).err, queries |-> <<>>]

(***************************************************************************)
(* Specification of the searches.                                          *)
(***************************************************************************)
SearchPoints == {[c |-> <<x, y>>, fin |-> TRUE] : x \in {0 - 2, 0, 1}, y \in {0 - 1, 0, 2}}

SearchBatches == UNION {[1..n -> SearchPoints] : n \in 1..MaxPts}

\* starting values of k for _find_triangle_search: below, at and past the cap
TriangleSearchKs == {0, 1, 24, 144, 287, SearchCapScalar, 2 * SearchCapScalar}

SearchArgs ==
    {[single |-> TRUE, pt |-> <<p>>, k |-> k] : p \in SearchPoints, k \in 0..MaxSearchK}
        \cup {[single |-> FALSE, pt |-> ps, k |-> k] : ps \in SearchBatches, k \in 0..MaxSearchK}
        \cup {[single |-> TRUE, pt |-> <<>>, k |-> k] : k \in TriangleSearchKs}

InitSearch ==
    /\ \E m \in Meshes : faces = m.faces /\ coordinates = m.coords
    /\ properties = EmptyTable
    /\ registrations = NoRegistrations
    /\ meta_data = NoMeta
    /\ op = "init"
    /\ arg \in SearchArgs
    /\ res = <<>>

\* container(pt, k) with one point
SearchPoint ==
    /\ arg.single
    /\ arg.pt # <<>>
    /\ op' = "container"
    /\ res' = point_search(faces, coordinates, arg.pt[1], arg.k)
    /\ UNCHANGED <<faces, properties, coordinates, registrations, meta_data, arg>>

\* container(pt, k) with an array of points
SearchBatch ==
    /\ ~arg.single
    /\ op' = "container"
    /\ res' = container_batch(faces, coordinates, arg.pt, arg.k)
    /\ UNCHANGED <<faces, properties, coordinates, registrations, meta_data, arg>>

\* _find_triangle_search(x, k) called on its own
FindTriangleSearch ==
    /\ arg.single
    /\ arg.pt = <<>>
    /\ op' = "_find_triangle_search"
    /\ res' = triangle_search(arg.k)
    /\ UNCHANGED <<faces, properties, coordinates, registrations, meta_data, arg>>

NextSearch == SearchPoint \/ SearchBatch \/ FindTriangleSearch

SpecSearch == InitSearch /\ [][NextSearch]_vars

\* the results a search can end with: a value or a raised exception
SearchOutcomes ==
    {"none", "ValueError", "TypeError", "IndexError", "AttributeError"}

\* the cap on the candidate count of a query
QueryCap == IF arg.single THEN SearchCapScalar - 1 ELSE SearchCapBatch

face_lookup(fs, coords, t) ==
    IF \E j \in 1..3 : fs[t + 1][j] >= Len(coords)
    THEN Raise("IndexError")
    ELSE [err |-> "none", val |-> FaceCorners(fs, coords, t)]

\* face_coordinates: [coordinates[:,f] for f in tess.faces], all faces at once
face_coordinates(fs, coords) ==
    IF \E t \in 0..(Len(fs) - 1) : face_lookup(fs, coords, t).err # "none"
    THEN Raise("IndexError")
    ELSE [err |-> "none", val |-> [i \in DOMAIN fs |-> FaceCorners(fs, coords, i - 1)]]

\* is_point_in_face([t], [pt]): the corners are looked up, then tested
is_point_in_face_lookup(fs, coords, t, p) ==
    LET tri == face_lookup(fs, coords, t)
    IN  IF tri.err # "none" THEN tri
        ELSE [err |-> "none", val |-> <<tri.val>>, inside |-> point_in_triangle(tri.val, p.c)]

\* address and unaddress: tx = coordinates[:, faces[:, face_id]] for a face id
address_lookup(fs, coords, t) ==
    LET tri == face_lookup(fs, coords, t)
    IN  IF tri.err # "none" THEN tri ELSE [err |-> "none", val |-> <<tri.val>>]

(***************************************************************************)
(* Specification of the lookups.                                           *)
(***************************************************************************)
MaxShift == 2

\* the labels a submesh keeps: the labels of m moved up by s from label g on
Relabel(fs, g, s) ==
    [i \in DOMAIN fs |-> [j \in 1..3 |-> IF fs[i][j] >= g THEN fs[i][j] + s ELSE fs[i][j]]]

InitLabels ==
    /\ \E m \in Meshes : \E g \in 0..Len(m.coords), s \in 0..MaxShift :
          /\ faces = Relabel(m.faces, g, s)
          /\ coordinates = m.coords
    /\ properties = EmptyTable
    /\ registrations = NoRegistrations
    /\ meta_data = NoMeta
    /\ op = "init"
    /\ arg \in {[t |-> t, pt |-> p] : t \in 0..(Len(faces) - 1), p \in SearchPoints}
    /\ res = <<>>

FaceCoordinates ==
    /\ op' = "face_coordinates"
    /\ res' = face_coordinates(faces, coordinates)
    /\ UNCHANGED <<faces, properties, coordinates, registrations, meta_data, arg>>

IsPointInFace ==
    /\ op' = "is_point_in_face"
    /\ res' = is_point_in_face_lookup(faces, coordinates, arg.t, arg.pt)
    /\ UNCHANGED <<faces, properties, coordinates, registrations, meta_data, arg>>

AddressLookup ==
    /\ op' = "address"
    /\ res' = address_lookup(faces, coordinates, arg.t)
    /\ UNCHANGED <<faces, properties, coordinates, registrations, meta_data, arg>>

NextLabels == FaceCoordinates \/ IsPointInFace \/ AddressLookup

SpecLabels == InitLabels /\ [][NextLabels]_vars

\* the corners of face number t, each taken at its label's vertex index
CornersByIndex(t) ==
    [j \in 1..3 |-> coordinates[vertex_index(faces)[faces[t + 1][j]] + 1]]

LabelsAreIndices == \A i \in DOMAIN labels(faces) : labels(faces)[i] = i - 1

\* C30 (as claimed): on a Mesh whose labels are not 0..n-1, face_coordinates,
\* is_point_in_face and the lookup of address read, for every corner, the
\* coordinate column at the vertex index of the corner's label, and none of
\* them reads outside the array.
C30_LookupByIndex ==
    (~LabelsAreIndices) =>
        /\ (op = "face_coordinates") =>
              /\ res.err = "none"
              /\ \A i \in DOMAIN faces : res.val[i] = CornersByIndex(i - 1)
        /\ (op \in {"is_point_in_face", "address"}) =>
              /\ res.err = "none"
              /\ res.val[1] = CornersByIndex(arg.t)

====
